---- MODULE Spec2Model ----
(***************************************************************************)
(* Agentic Factory: the graph store of App (nodes, connections, selection) *)
(* with its mutation handlers, the MERGE / REPLACE engine of               *)
(* handleGenerate, and the file format module (normalizeNode,               *)
(* normalizeConnection, parseAgenticFactoryJson).                           *)
(*                                                                         *)
(* JavaScript values are modelled as tagged records [t, s, n]: t is the    *)
(* typeof tag ("undefined", "null", "string", "number", "boolean"), s the  *)
(* string payload and n the numeric payload (1/0 for true/false).  A       *)
(* non-finite number carries s = "Infinity".                               *)
(***************************************************************************)
EXTENDS Integers, Sequences, FiniteSets, TLC

VARIABLES nodes, connections, selectedIds, uuid, pending, lastOp, pre, budget,
          input, output, isDragging, loop

vars == <<nodes, connections, selectedIds, uuid, pending, lastOp, pre, budget,
          input, output, isDragging, loop>>

-----------------------------------------------------------------------------
(* JavaScript values *)

JUndef == [t |-> "undefined", s |-> "", n |-> 0]

JNull == [t |-> "null", s |-> "", n |-> 0]

JStr(str) == [t |-> "string", s |-> str, n |-> 0]

JNum(k) == [t |-> "number", s |-> "", n |-> k]

JInf == [t |-> "number", s |-> "Infinity", n |-> 0]

JBool(b) == [t |-> "boolean", s |-> "", n |-> IF b THEN 1 ELSE 0]

JTrue == JBool(TRUE)

JFalse == JBool(FALSE)

\* v !== undefined
Defined(v) == v.t # "undefined"

\* JavaScript truthiness, as used by `a || b` and `if (a)`
Truthy(v) ==
  CASE v.t = "string" -> v.s # ""
    [] v.t = "number" -> v.s = "Infinity" \/ v.n # 0
    [] v.t = "boolean" -> v.n = 1
    [] v.t = "object" -> TRUE
    [] OTHER -> FALSE

\* a || b
Or(a, b) == IF Truthy(a) THEN a ELSE b

\* a ?? b
Nullish(a, b) == IF a.t \in {"undefined", "null"} THEN b ELSE a

\* `${v}` in a template literal
TemplateStr(v) ==
  CASE v.t = "string" -> v.s
    [] v.t = "undefined" -> "undefined"
    [] v.t = "null" -> "null"
    [] v.t = "boolean" -> IF v.n = 1 THEN "true" ELSE "false"
    [] v.t = "number" -> IF v.s = "Infinity" THEN "Infinity" ELSE ToString(v.n)
    [] OTHER -> "[object Object]"

\* Number(str) on the strings of the model: "" and decimal literals are
\* finite, everything else is NaN
NumberOfString(str) ==
  CASE str = "" -> JNum(0)
    [] str = "0" -> JNum(0)
    [] str = "2" -> JNum(2)
    [] OTHER -> [t |-> "number", s |-> "NaN", n |-> 0]

IsFiniteNumber(v) == v.t = "number" /\ v.s = ""

-----------------------------------------------------------------------------
(* types.ts *)

GRID_SIZE == 2

NodeType == {"CONFIG", "DSPY_MODULE", "PHASE", "STRATEGY", "AGENT", "TOOL",
             "TASK", "SURFACE", "ANNOTATION"}

NodeProvider == {"Generic", "AgentFramework", "DSPy", "Foundry"}

EdgeCategory == {"dataFlow", "controlFlow", "callsTool", "retrievesFrom",
                 "deploysTo", "dependsOn"}

\* keys of the metadata maps of the model
MetaKeys == {"model", "role", "path"}

\* marks a key that the metadata object does not have
NoKey == "<absent>"

NoMeta == [k \in MetaKeys |-> NoKey]

\* metadata values: [t, m]; dimensions values: [t, width, depth]
MetaUndef == [t |-> "undefined", m |-> NoMeta]

MetaObj(m) == [t |-> "object", m |-> m]

DimUndef == [t |-> "undefined", width |-> JUndef, depth |-> JUndef]

DimObj(w, d) == [t |-> "object", width |-> w, depth |-> d]

\* const NODE_COLORS / getColorForType
NODE_COLORS(type) ==
  CASE type = "CONFIG" -> "#475569"
    [] type = "DSPY_MODULE" -> "#ca8a04"
    [] type = "PHASE" -> "#2563eb"
    [] type = "STRATEGY" -> "#9333ea"
    [] type = "AGENT" -> "#db2777"
    [] type = "TOOL" -> "#059669"
    [] type = "TASK" -> "#94a3b8"
    [] type = "SURFACE" -> "#3f3f46"
    [] type = "ANNOTATION" -> "#e4e4e7"
    [] OTHER -> ""

getColorForType(type) ==
  IF type.t = "string" /\ NODE_COLORS(type.s) # ""
  THEN JStr(NODE_COLORS(type.s))
  ELSE JStr("#64748b")

-----------------------------------------------------------------------------
(* services/fileFormat: results of functions that may throw *)

Ok(v) == [ok |-> TRUE, err |-> "", val |-> <<v>>]

Throw(msg) == [ok |-> FALSE, err |-> msg, val |-> <<>>]

isObject(v) == v.t \in {"object", "array"}

asString(v, fallback) == IF v.t = "string" THEN v.s ELSE fallback

\* asNumber without Number.isFinite
asNumberAnyNumber(v, fallback) == IF v.t = "number" THEN v ELSE JNum(fallback)

asNumber(v, fallback) == IF IsFiniteNumber(v) THEN v ELSE JNum(fallback)

asOptionalNumber(v) ==
  IF IsFiniteNumber(v) THEN v
  ELSE IF v.t = "string" /\ IsFiniteNumber(NumberOfString(v.s))
       THEN NumberOfString(v.s)
       ELSE JUndef

normalizeNode(raw) ==
  IF ~isObject(raw) THEN Throw("Invalid node: expected object")
  ELSE
    LET n == raw.f
        id == asString(n.id, "")
        type == asString(n.type, "")
        label == asString(n.label, "")
    IN  IF id = "" THEN Throw("Invalid node: missing id")
        ELSE IF type \notin NodeType THEN Throw("Invalid node: unknown type")
        ELSE IF label = "" THEN Throw("Invalid node: missing label")
        ELSE Ok([
          id |-> JStr(id),
          type |-> JStr(type),
          label |-> JStr(label),
          x |-> asNumber(n.x, 0),
          z |-> asNumber(n.z, 0),
          y |-> asOptionalNumber(n.y),
          color |-> JStr(asString(n.color, "#64748b")),
          provider |-> IF n.provider.t = "string" /\ n.provider.s \in NodeProvider
                       THEN n.provider ELSE JUndef,
          kind |-> IF n.kind.t = "string" THEN n.kind ELSE JUndef,
          parentId |-> IF n.parentId.t = "string" THEN n.parentId ELSE JUndef,
          collapsed |-> IF n.collapsed.t = "boolean" THEN n.collapsed ELSE JUndef,
          metadata |-> IF isObject(n.metadata) THEN MetaObj(n.metadata.m) ELSE MetaUndef,
          textureUrl |-> IF n.textureUrl.t = "string" THEN n.textureUrl ELSE JUndef,
          dimensions |-> IF isObject(n.dimensions)
                         THEN DimObj(asNumber(n.dimensions.width, 4),
                                     asNumber(n.dimensions.depth, 4))
                         ELSE DimUndef,
          fontSize |-> IF n.fontSize.t = "number" THEN n.fontSize ELSE JUndef ])

normalizeConnection(raw) ==
  IF ~isObject(raw) THEN Throw("Invalid connection: expected object")
  ELSE
    LET c == raw.f
        fromId == asString(c.fromId, "")
        toId == asString(c.toId, "")
    IN  IF fromId = "" \/ toId = ""
        THEN Throw("Invalid connection: missing fromId/toId")
        ELSE Ok([
          id |-> IF asString(c.id, "") # "" THEN JStr(asString(c.id, ""))
                 ELSE JStr(fromId \o "->" \o toId),
          fromId |-> JStr(fromId),
          toId |-> JStr(toId),
          label |-> IF c.label.t = "string" THEN c.label ELSE JUndef,
          animated |-> IF c.animated.t = "boolean" THEN c.animated ELSE JUndef,
          category |-> IF c.category.t = "string" /\ c.category.s \in EdgeCategory
                       THEN c.category ELSE JUndef ])

\* Array.prototype.map with a callback that may throw: the first throw wins
MapThrowing(F(_), items) ==
  IF \E i \in 1..Len(items) : ~F(items[i]).ok
  THEN LET first == CHOOSE i \in 1..Len(items) :
                      /\ ~F(items[i]).ok
                      /\ \A j \in 1..(i - 1) : F(items[j]).ok
       IN  Throw(F(items[first]).err)
  ELSE Ok([i \in 1..Len(items) |-> F(items[i]).val[1]])

AGENTIC_FACTORY_SCHEMA_VERSION == 1

\* new Date().toISOString()
NowIso == "<now>"

createAgenticFactoryFile(ns, cs, createdAt) ==
  [schemaVersion |-> AGENTIC_FACTORY_SCHEMA_VERSION,
   createdAt |-> IF Truthy(createdAt) THEN createdAt.s ELSE NowIso,
   nodes |-> ns,
   connections |-> cs]

\* a parsed JSON value v: [t, schemaVersion, createdAt, nodes, connections],
\* nodes and connections being [isArray, items]
isAgenticFactoryFileV1(v) ==
  /\ isObject(v)
  /\ v.schemaVersion = JNum(1)
  /\ v.nodes.isArray
  /\ v.connections.isArray

\* isLegacyGraph without the test of schemaVersion
isLegacyGraphAnyVersion(v) ==
  /\ isObject(v)
  /\ v.nodes.isArray
  /\ v.connections.isArray

isLegacyGraph(v) ==
  /\ isObject(v)
  /\ v.nodes.isArray
  /\ v.connections.isArray
  /\ v.schemaVersion.t = "undefined"

UnsupportedFormat == "Unsupported file format"

\* a decoder that skips the items the normalizers reject
parseSkippingInvalid(jsonText) ==
  IF ~jsonText.syntaxOk THEN Throw("SyntaxError")
  ELSE
    LET parsed == jsonText.value
        keepN == SelectSeq(parsed.nodes.items, LAMBDA raw : normalizeNode(raw).ok)
        keepC == SelectSeq(parsed.connections.items, LAMBDA raw : normalizeConnection(raw).ok)
    IN  IF isAgenticFactoryFileV1(parsed) \/ isLegacyGraph(parsed)
        THEN Ok(createAgenticFactoryFile(
                  [i \in 1..Len(keepN) |-> normalizeNode(keepN[i]).val[1]],
                  [i \in 1..Len(keepC) |-> normalizeConnection(keepC[i]).val[1]],
                  JUndef))
        ELSE Throw(UnsupportedFormat)

\* jsonText: [syntaxOk, value]; JSON.parse throws a SyntaxError on bad text
parseAgenticFactoryJson(jsonText) ==
  IF ~jsonText.syntaxOk THEN Throw("SyntaxError")
  ELSE
    LET parsed == jsonText.value
        ns == MapThrowing(normalizeNode, parsed.nodes.items)
        cs == MapThrowing(normalizeConnection, parsed.connections.items)
    IN  IF isAgenticFactoryFileV1(parsed)
        THEN IF ~ns.ok THEN Throw(ns.err)
             ELSE IF ~cs.ok THEN Throw(cs.err)
             ELSE Ok([schemaVersion |-> 1,
                      createdAt |-> asString(parsed.createdAt, NowIso),
                      nodes |-> ns.val[1],
                      connections |-> cs.val[1]])
        ELSE IF isLegacyGraph(parsed)
        THEN IF ~ns.ok THEN Throw(ns.err)
             ELSE IF ~cs.ok THEN Throw(cs.err)
             ELSE Ok(createAgenticFactoryFile(ns.val[1], cs.val[1], JUndef))
        ELSE Throw(UnsupportedFormat)

\* JSON.stringify of a value: NaN and Infinity are written as null
JsonOfValue(v) == IF v.t = "number" /\ v.s # "" THEN JNull ELSE v

\* JSON.stringify then JSON.parse of a node: a property whose value is
\* undefined is not written, and reads undefined again
JsonOfNode(n) ==
  [t |-> "object",
   f |-> [id |-> JsonOfValue(n.id),
          type |-> JsonOfValue(n.type),
          label |-> JsonOfValue(n.label),
          x |-> JsonOfValue(n.x),
          z |-> JsonOfValue(n.z),
          y |-> JsonOfValue(n.y),
          color |-> JsonOfValue(n.color),
          provider |-> JsonOfValue(n.provider),
          kind |-> JsonOfValue(n.kind),
          parentId |-> JsonOfValue(n.parentId),
          collapsed |-> JsonOfValue(n.collapsed),
          metadata |-> n.metadata,
          textureUrl |-> JsonOfValue(n.textureUrl),
          dimensions |-> IF n.dimensions.t = "object"
                         THEN [t |-> "object",
                               width |-> JsonOfValue(n.dimensions.width),
                               depth |-> JsonOfValue(n.dimensions.depth)]
                         ELSE n.dimensions,
          fontSize |-> JsonOfValue(n.fontSize)]]

JsonOfConnection(c) ==
  [t |-> "object",
   f |-> [id |-> JsonOfValue(c.id),
          fromId |-> JsonOfValue(c.fromId),
          toId |-> JsonOfValue(c.toId),
          label |-> JsonOfValue(c.label),
          animated |-> JsonOfValue(c.animated),
          category |-> JsonOfValue(c.category)]]

\* the text JSON.stringify(file, null, 2), as what JSON.parse reads from it
serializeAgenticFactoryFile(file) ==
  [kind |-> "json", syntaxOk |-> TRUE,
   value |-> [t |-> "object",
              schemaVersion |-> JNum(file.schemaVersion),
              createdAt |-> JStr(file.createdAt),
              nodes |-> [isArray |-> TRUE,
                         items |-> [i \in 1..Len(file.nodes) |-> JsonOfNode(file.nodes[i])]],
              connections |-> [isArray |-> TRUE,
                               items |-> [i \in 1..Len(file.connections) |->
                                            JsonOfConnection(file.connections[i])]]]]

-----------------------------------------------------------------------------
(* App: helpers over the node and connection lists *)

Range(seq) == {seq[i] : i \in 1..Len(seq)}

NodeIdsOf(ns) == {ns[i].id : i \in 1..Len(ns)}

SelectSeqIdx(seq, Keep(_)) ==
  LET F[i \in 0..Len(seq)] ==
        IF i = 0 THEN <<>>
        ELSE IF Keep(seq[i]) THEN Append(F[i - 1], seq[i]) ELSE F[i - 1]
  IN  F[Len(seq)]

\* uuidv4(): the k-th identifier minted in this session
Mint(k) == JStr("u" \o ToString(k))

\* { ...n, ...data }
Patch(n, data) == [k \in DOMAIN n |-> IF k \in DOMAIN data THEN data[k] ELSE n[k]]

\* App state as the handlers see it, kept as the previous snapshot
Snapshot == [nodes |-> nodes, connections |-> connections,
             selectedIds |-> selectedIds, pending |-> pending]

Op(name, id, x, z, multi) == [op |-> name, id |-> id, x |-> x, z |-> z, multi |-> multi]

NoInput == [kind |-> "none"]

\* no loop is being traced
NoLoop == [kind |-> "none"]

Tick == /\ budget > 0
        /\ budget' = budget - 1
        /\ pre' = Snapshot

-----------------------------------------------------------------------------
(* handleSelectNode *)

\* a selection that shift only adds to
SelectResultAdding(sel, id, multi) ==
  IF id.t = "null"
  THEN IF ~multi THEN {} ELSE sel
  ELSE (IF multi THEN sel ELSE {}) \cup {id}

SelectResult(sel, id, multi) ==
  IF id.t = "null"
  THEN IF ~multi THEN {} ELSE sel
  ELSE LET next == IF multi THEN sel ELSE {}
       IN  IF multi /\ id \in sel THEN next \ {id} ELSE next \cup {id}

handleSelectNode(id, multi) ==
  /\ Tick
  /\ selectedIds' = SelectResult(selectedIds, id, multi)
  /\ lastOp' = Op("select", id, 0, 0, multi)
  /\ input' = NoInput
  /\ UNCHANGED <<nodes, connections, uuid, pending, output, isDragging, loop>>

-----------------------------------------------------------------------------
(* handleAddNode *)

NewNode(type, id, count) ==
  [id |-> id,
   type |-> JStr(type),
   label |-> JStr(IF type = "ANNOTATION" THEN "Label Text" ELSE "New " \o type),
   x |-> JNum((count * GRID_SIZE) % 10),
   z |-> JNum(10),
   y |-> JUndef,
   color |-> getColorForType(JStr(type)),
   provider |-> JStr(CASE type = "DSPY_MODULE" -> "DSPy"
                       [] type = "AGENT" -> "AgentFramework"
                       [] OTHER -> "Generic"),
   kind |-> CASE type = "DSPY_MODULE" -> JStr("DSPy.Module")
              [] type = "AGENT" -> JStr("AgentFramework.Agent")
              [] type = "TOOL" -> JStr("Tool")
              [] type = "SURFACE" -> JStr("Container.Zone")
              [] type = "ANNOTATION" -> JStr("Annotation")
              [] OTHER -> JUndef,
   parentId |-> JUndef,
   collapsed |-> JUndef,
   metadata |-> MetaUndef,
   textureUrl |-> JUndef,
   dimensions |-> IF type = "SURFACE" THEN DimObj(JNum(6), JNum(6)) ELSE DimUndef,
   fontSize |-> IF type = "ANNOTATION" THEN JNum(1) ELSE JUndef]

handleAddNode(type) ==
  /\ Tick
  /\ nodes' = Append(nodes, NewNode(type, Mint(uuid), Len(nodes)))
  /\ selectedIds' = {Mint(uuid)}
  /\ uuid' = uuid + 1
  /\ lastOp' = Op("addNode", Mint(uuid), 0, 0, FALSE)
  /\ input' = NoInput
  /\ UNCHANGED <<connections, pending, output, isDragging, loop>>

-----------------------------------------------------------------------------
(* handleAddTemplate *)

\* mk(partial): { id: uuidv4(), color: partial.color || getColorForType(type),
\* ...partial }; no template gives a color.  Of the metadata only the keys of
\* MetaKeys are kept.
mk(id, type, label, x, z, provider, kind, parentId, metadata, dimensions) ==
  [id |-> id,
   type |-> JStr(type),
   label |-> JStr(label),
   x |-> JNum(x),
   z |-> JNum(z),
   y |-> JUndef,
   color |-> getColorForType(JStr(type)),
   provider |-> JStr(provider),
   kind |-> JStr(kind),
   parentId |-> parentId,
   collapsed |-> JUndef,
   metadata |-> metadata,
   textureUrl |-> JUndef,
   dimensions |-> dimensions,
   fontSize |-> JUndef]

\* an id written in the template's definition
TemplateIdLiteral(u, k) == JStr("tpl" \o ToString(k))

\* the id made by the (k+1)-th uuidv4() of a call that starts at u
TemplateId(u, k) == Mint(u + k)

TemplateIds == {"af_orchestrator", "dspy_program", "foundry_stack"}

roles ==
  << [label |-> "Planner", kind |-> "AgentFramework.Agent.Planner", x |-> -6, z |-> -4],
     [label |-> "Router", kind |-> "AgentFramework.Agent.Router", x |-> -6, z |-> 4],
     [label |-> "Retriever", kind |-> "AgentFramework.Agent.Retriever", x |-> 6, z |-> -4],
     [label |-> "Tool-Caller", kind |-> "AgentFramework.Agent.ToolCaller", x |-> 6, z |-> 4],
     [label |-> "Supervisor", kind |-> "AgentFramework.Agent.Supervisor", x |-> 0, z |-> 8] >>

\* newNodes, the k-th uuidv4() of the call being TemplateId(u, k - 1)
TemplateNodes(templateId, u) ==
  CASE templateId = "af_orchestrator" ->
         << mk(TemplateId(u, 0), "AGENT", "Orchestrator", 0, 0, "AgentFramework",
               "AgentFramework.Orchestrator", JUndef,
               MetaObj([NoMeta EXCEPT !["role"] =
                 "Coordinates the multi-agent workflow; delegates tasks; merges results."]),
               DimUndef) >>
         \o [i \in 1..Len(roles) |->
               mk(TemplateId(u, i), "AGENT", roles[i].label, roles[i].x, roles[i].z,
                  "AgentFramework", roles[i].kind, TemplateId(u, 0),
                  MetaObj([NoMeta EXCEPT !["role"] = roles[i].label \o " agent role."]),
                  DimUndef)]
    [] templateId = "dspy_program" ->
         << mk(TemplateId(u, 0), "DSPY_MODULE", "DSPy Program", 0, 0, "DSPy", "DSPy.ProgramSpec",
               JUndef, MetaObj(NoMeta), DimUndef),
            mk(TemplateId(u, 1), "TASK", "Training Data", -6, 0, "DSPy", "DSPy.Dataset",
               JUndef, MetaObj([NoMeta EXCEPT !["path"] = "data/train.jsonl"]), DimUndef),
            mk(TemplateId(u, 2), "TASK", "Eval Suite", 6, 0, "DSPy", "DSPy.EvalSuite",
               JUndef, MetaObj([NoMeta EXCEPT !["path"] = "evals/basic_eval.py"]), DimUndef),
            mk(TemplateId(u, 3), "CONFIG", "Compiled Artifact", 0, 6, "DSPy",
               "DSPy.CompiledProgram", JUndef,
               MetaObj([NoMeta EXCEPT !["model"] = "provider/model-name"]), DimUndef) >>
    [] templateId = "foundry_stack" ->
         << mk(TemplateId(u, 0), "SURFACE", "Foundry Zone", 0, 0, "Foundry", "Foundry.Zone",
               JUndef, MetaUndef, DimObj(JNum(16), JNum(12))),
            mk(TemplateId(u, 1), "CONFIG", "Model Endpoint", -4, -2, "Foundry",
               "Foundry.ModelEndpoint", TemplateId(u, 0),
               MetaObj([NoMeta EXCEPT !["model"] = "gpt-4.1",
                                      !["path"] = "foundry/endpoints/model"]), DimUndef),
            mk(TemplateId(u, 2), "TOOL", "Knowledge Base", 4, -2, "Foundry",
               "Foundry.KnowledgeBase", TemplateId(u, 0), MetaObj(NoMeta), DimUndef),
            mk(TemplateId(u, 3), "TOOL", "AI Search Index", 4, 4, "Foundry",
               "Foundry.SearchIndex", TemplateId(u, 0), MetaObj(NoMeta), DimUndef),
            mk(TemplateId(u, 4), "TOOL", "Foundry Tool", -4, 4, "Foundry", "Foundry.Tool",
               TemplateId(u, 0), MetaObj(NoMeta), DimUndef) >>
    [] OTHER -> <<>>

TemplateEdge(id, fromId, toId, category, label) ==
  [id |-> id, fromId |-> fromId, toId |-> toId, label |-> JStr(label),
   animated |-> JTrue, category |-> JStr(category)]

\* newConnections; n nodes were made before the first connection
TemplateConnections(templateId, u) ==
  CASE templateId = "af_orchestrator" ->
         [i \in 1..Len(roles) |->
            TemplateEdge(TemplateId(u, Len(roles) + i), TemplateId(u, 0), TemplateId(u, i),
                         "controlFlow", "delegate")]
    [] templateId = "dspy_program" ->
         << TemplateEdge(TemplateId(u, 4), TemplateId(u, 1), TemplateId(u, 0), "dependsOn", "trains"),
            TemplateEdge(TemplateId(u, 5), TemplateId(u, 0), TemplateId(u, 3), "deploysTo", "compiles"),
            TemplateEdge(TemplateId(u, 6), TemplateId(u, 2), TemplateId(u, 0), "dependsOn", "evaluates") >>
    [] templateId = "foundry_stack" ->
         << TemplateEdge(TemplateId(u, 5), TemplateId(u, 1), TemplateId(u, 4), "callsTool", "uses"),
            TemplateEdge(TemplateId(u, 6), TemplateId(u, 4), TemplateId(u, 2), "retrievesFrom", "retrieve"),
            TemplateEdge(TemplateId(u, 7), TemplateId(u, 2), TemplateId(u, 3), "dependsOn", "indexed-by") >>
    [] OTHER -> <<>>

handleAddTemplate(templateId) ==
  LET newNodes == TemplateNodes(templateId, uuid)
      newConnections == TemplateConnections(templateId, uuid)
  IN  /\ Tick
      /\ IF Len(newNodes) = 0
         THEN UNCHANGED <<nodes, connections, selectedIds, uuid>>
         ELSE /\ nodes' = nodes \o newNodes
              /\ connections' = connections \o newConnections
              /\ selectedIds' = {newNodes[1].id}
              /\ uuid' = uuid + Len(newNodes) + Len(newConnections)
      /\ lastOp' = Op("addTemplate", JNull, 0, 0, FALSE)
      /\ input' = [kind |-> "template", templateId |-> templateId]
      /\ UNCHANGED <<pending, output, isDragging, loop>>

-----------------------------------------------------------------------------

(* handleMoveNode *)

\* prev.find(n => n.id === id)
FindIndex(ns, id) ==
  IF \E i \in 1..Len(ns) : ns[i].id = id
  THEN CHOOSE i \in 1..Len(ns) : ns[i].id = id /\ \A j \in 1..(i - 1) : ns[j].id # id
  ELSE 0

\* 1) Hierarchy: one pass of `for (const child of prev)`
HierarchyPass(ids, prev) ==
  LET F[i \in 0..Len(prev)] ==
        IF i = 0 THEN ids
        ELSE LET child == prev[i]
                 idsToMove == F[i - 1]
             IN  IF /\ child.id \notin idsToMove
                    /\ Truthy(child.parentId)
                    /\ child.parentId \in idsToMove
                 THEN idsToMove \cup {child.id}
                 ELSE idsToMove
  IN  F[Len(prev)]

\* child.x >= minX && child.x <= maxX && child.z >= minZ && child.z <= maxZ,
\* with minX = surface.x - width / 2 ...; both sides doubled to stay in integers
Inside(surface, child) ==
  /\ 2 * child.x.n >= 2 * surface.x.n - surface.dimensions.width.n
  /\ 2 * child.x.n <= 2 * surface.x.n + surface.dimensions.width.n
  /\ 2 * child.z.n >= 2 * surface.z.n - surface.dimensions.depth.n
  /\ 2 * child.z.n <= 2 * surface.z.n + surface.dimensions.depth.n

IsMovingSurface(n, ids) ==
  n.id \in ids /\ n.type = JStr("SURFACE") /\ Truthy(n.dimensions)

\* a pass that leaves out the surfaces
SurfacePassSkipped(ids, prev) == ids

\* 2) Surface containment: `for (const surface of movingSurfaces)`, the
\* surfaces being those that move when the pass starts
SurfacePass(ids, prev) ==
  LET movingSurfaces == SelectSeqIdx(prev, LAMBDA n : IsMovingSurface(n, ids))
      Inner(acc, surface) ==
        LET G[i \in 0..Len(prev)] ==
              IF i = 0 THEN acc
              ELSE LET idsToMove == G[i - 1]
                   IN  IF prev[i].id \notin idsToMove /\ Inside(surface, prev[i])
                       THEN idsToMove \cup {prev[i].id}
                       ELSE idsToMove
        IN  G[Len(prev)]
      F[k \in 0..Len(movingSurfaces)] ==
        IF k = 0 THEN ids ELSE Inner(F[k - 1], movingSurfaces[k])
  IN  F[Len(movingSurfaces)]

\* a closure that runs the body of the loop once
MoveClosureOnePass(ids, prev) == SurfacePass(HierarchyPass(ids, prev), prev)

\* while (addedNew) { ... }
RECURSIVE MoveClosure(_, _)
MoveClosure(ids, prev) ==
  LET next == SurfacePass(HierarchyPass(ids, prev), prev)
  IN  IF next = ids THEN ids ELSE MoveClosure(next, prev)

MoveSeed(sel, id) == IF id \in sel THEN sel ELSE {id}

MoveResult(prev, sel, id, x, z) ==
  LET k == FindIndex(prev, id)
  IN  IF k = 0 THEN prev
      ELSE LET dx == x - prev[k].x.n
               dz == z - prev[k].z.n
               idsToMove == MoveClosure(MoveSeed(sel, id), prev)
           IN  IF dx = 0 /\ dz = 0 THEN prev
               ELSE [i \in 1..Len(prev) |->
                      IF prev[i].id \in idsToMove
                      THEN [prev[i] EXCEPT !.x = JNum(prev[i].x.n + dx),
                                           !.z = JNum(prev[i].z.n + dz)]
                      ELSE prev[i]]

handleMoveNode(id, x, z) ==
  /\ Tick
  /\ nodes' = MoveResult(nodes, selectedIds, id, x, z)
  /\ lastOp' = Op("move", id, x, z, FALSE)
  /\ input' = NoInput
  /\ UNCHANGED <<connections, selectedIds, uuid, pending, output, isDragging, loop>>

-----------------------------------------------------------------------------
(* handleUpdateNode, handleDeleteNode *)

handleUpdateNode(id, data) ==
  /\ Tick
  /\ nodes' = [i \in 1..Len(nodes) |->
                 IF nodes[i].id = id THEN Patch(nodes[i], data) ELSE nodes[i]]
  /\ lastOp' = Op("updateNode", id, 0, 0, FALSE)
  /\ input' = [kind |-> "patch", data |-> data]
  /\ UNCHANGED <<connections, selectedIds, uuid, pending, output, isDragging, loop>>

CascadePass(toDelete, allNodes) ==
  LET F[i \in 0..Len(allNodes)] ==
        IF i = 0 THEN toDelete
        ELSE LET n == allNodes[i]
                 acc == F[i - 1]
             IN  IF /\ Truthy(n.parentId)
                    /\ n.parentId \in acc
                    /\ n.id \notin acc
                 THEN acc \cup {n.id}
                 ELSE acc
  IN  F[Len(allNodes)]

\* a cascade that scans the node list once
cascadeDeleteOnePass(initial, allNodes) == CascadePass(initial, allNodes)

RECURSIVE cascadeDelete(_, _)
cascadeDelete(initial, allNodes) ==
  LET next == CascadePass(initial, allNodes)
  IN  IF next = initial THEN initial ELSE cascadeDelete(next, allNodes)

DeleteSeed(sel, id) == IF id \in sel THEN sel ELSE {id}

handleDeleteNodeKeepingSelection(id) ==
  LET toDelete == cascadeDelete(DeleteSeed(selectedIds, id), nodes)
  IN  /\ Tick
      /\ nodes' = SelectSeqIdx(nodes, LAMBDA n : n.id \notin toDelete)
      /\ connections' = SelectSeqIdx(connections,
                          LAMBDA c : c.fromId \notin toDelete /\ c.toId \notin toDelete)
      /\ UNCHANGED selectedIds
      /\ lastOp' = Op("delete", id, 0, 0, FALSE)
      /\ input' = NoInput
      /\ UNCHANGED <<uuid, pending, output, isDragging, loop>>

handleDeleteNode(id) ==
  LET toDelete == cascadeDelete(DeleteSeed(selectedIds, id), nodes)
  IN  /\ Tick
      /\ nodes' = SelectSeqIdx(nodes, LAMBDA n : n.id \notin toDelete)
      /\ connections' = SelectSeqIdx(connections,
                          LAMBDA c : c.fromId \notin toDelete /\ c.toId \notin toDelete)
      /\ selectedIds' = {}
      /\ lastOp' = Op("delete", id, 0, 0, FALSE)
      /\ input' = NoInput
      /\ UNCHANGED <<uuid, pending, output, isDragging, loop>>

-----------------------------------------------------------------------------
(* handleAddConnection, handleRemoveConnection, handleUpdateConnection *)

handleAddConnection(fromId, toId) ==
  /\ Tick
  /\ connections' = Append(connections,
       [id |-> Mint(uuid), fromId |-> fromId, toId |-> toId, label |-> JUndef,
        animated |-> JTrue, category |-> JStr("dataFlow")])
  /\ uuid' = uuid + 1
  /\ lastOp' = Op("addConnection", fromId, 0, 0, FALSE)
  /\ input' = [kind |-> "target", toId |-> toId]
  /\ UNCHANGED <<nodes, selectedIds, pending, output, isDragging, loop>>

handleRemoveConnection(id) ==
  /\ Tick
  /\ connections' = SelectSeqIdx(connections, LAMBDA c : c.id # id)
  /\ lastOp' = Op("removeConnection", id, 0, 0, FALSE)
  /\ input' = NoInput
  /\ UNCHANGED <<nodes, selectedIds, uuid, pending, output, isDragging, loop>>

handleUpdateConnection(id, data) ==
  /\ Tick
  /\ connections' = [i \in 1..Len(connections) |->
                       IF connections[i].id = id
                       THEN Patch(connections[i], data) ELSE connections[i]]
  /\ lastOp' = Op("updateConnection", id, 0, 0, FALSE)
  /\ input' = [kind |-> "patch", data |-> data]
  /\ UNCHANGED <<nodes, selectedIds, uuid, pending, output, isDragging, loop>>

-----------------------------------------------------------------------------
(* handleGroupNodes.  Lengths are kept doubled (lo2 = 2 * lo) so that the   *)
(* half widths of the code stay whole numbers.                              *)

MinOf(S) == CHOOSE a \in S : \A b \in S : a <= b

MaxOf(S) == CHOOSE a \in S : \A b \in S : a >= b

\* Math.round(s / d) for d > 0: halves go up
RoundDiv(s, d) == (2 * s + d) \div (2 * d)

\* 2 * halfWidth and 2 * halfDepth of a node
HalfWidth2(n) == IF Truthy(n.dimensions) THEN n.dimensions.width.n ELSE 2

HalfDepth2(n) == IF Truthy(n.dimensions) THEN n.dimensions.depth.n ELSE 2

\* 2 * minX, 2 * maxX, 2 * minZ, 2 * maxZ over the selected nodes
GroupBounds2(selectedNodes) ==
  LET I == 1..Len(selectedNodes)
  IN  [minX |-> MinOf({2 * selectedNodes[i].x.n - HalfWidth2(selectedNodes[i]) : i \in I}),
       maxX |-> MaxOf({2 * selectedNodes[i].x.n + HalfWidth2(selectedNodes[i]) : i \in I}),
       minZ |-> MinOf({2 * selectedNodes[i].z.n - HalfDepth2(selectedNodes[i]) : i \in I}),
       maxZ |-> MaxOf({2 * selectedNodes[i].z.n + HalfDepth2(selectedNodes[i]) : i \in I})]

\* the extent taken from the lower edge only
CoverFromLowerEdge(center, lo2, hi2, padding) == 2 * center - (lo2 - 2 * padding)

\* Math.max(2 * (center - (min - padding)), 2 * ((max + padding) - center))
Cover(center, lo2, hi2, padding) ==
  MaxOf({2 * center - (lo2 - 2 * padding), (hi2 + 2 * padding) - 2 * center})

GroupNode(selectedNodes, id) ==
  LET b == GroupBounds2(selectedNodes)
      padding == GRID_SIZE
      centerX == RoundDiv(b.minX + b.maxX, 4 * GRID_SIZE) * GRID_SIZE
      centerZ == RoundDiv(b.minZ + b.maxZ, 4 * GRID_SIZE) * GRID_SIZE
      width == Cover(centerX, b.minX, b.maxX, padding)
      depth == Cover(centerZ, b.minZ, b.maxZ, padding)
  IN  [id |-> id,
       type |-> JStr("SURFACE"),
       label |-> JStr("Group Zone"),
       x |-> JNum(centerX),
       z |-> JNum(centerZ),
       y |-> JUndef,
       color |-> getColorForType(JStr("SURFACE")),
       provider |-> JUndef,
       kind |-> JUndef,
       parentId |-> JUndef,
       collapsed |-> JUndef,
       metadata |-> MetaUndef,
       textureUrl |-> JUndef,
       dimensions |-> DimObj(JNum(width), JNum(depth)),
       fontSize |-> JUndef]

\* grouping that also makes the new surface the parent of the grouped nodes
handleGroupNodesReparenting ==
  LET selectedNodes == SelectSeqIdx(nodes, LAMBDA n : n.id \in selectedIds)
  IN  /\ Tick
      /\ IF Cardinality(selectedIds) < 2 \/ Len(selectedNodes) = 0
         THEN UNCHANGED <<nodes, selectedIds, uuid>>
         ELSE /\ nodes' = Append([i \in 1..Len(nodes) |->
                                    IF nodes[i].id \in selectedIds
                                    THEN [nodes[i] EXCEPT !.parentId = Mint(uuid)]
                                    ELSE nodes[i]],
                                 GroupNode(selectedNodes, Mint(uuid)))
              /\ selectedIds' = {Mint(uuid)}
              /\ uuid' = uuid + 1
      /\ lastOp' = Op("group", JNull, 0, 0, FALSE)
      /\ input' = NoInput
      /\ UNCHANGED <<connections, pending, output, isDragging, loop>>

handleGroupNodes ==
  LET selectedNodes == SelectSeqIdx(nodes, LAMBDA n : n.id \in selectedIds)
  IN  /\ Tick
      /\ IF Cardinality(selectedIds) < 2 \/ Len(selectedNodes) = 0
         THEN UNCHANGED <<nodes, selectedIds, uuid>>
         ELSE /\ nodes' = Append(nodes, GroupNode(selectedNodes, Mint(uuid)))
              /\ selectedIds' = {Mint(uuid)}
              /\ uuid' = uuid + 1
      /\ lastOp' = Op("group", JNull, 0, 0, FALSE)
      /\ input' = NoInput
      /\ UNCHANGED <<connections, pending, output, isDragging, loop>>

-----------------------------------------------------------------------------
(* handleGenerate: the request is started with the nodes and connections of *)
(* the render that called it, and the response is applied to that snapshot  *)

\* a JavaScript Map as the list of its entries in insertion order
MapIndex(m, key) ==
  IF \E i \in 1..Len(m) : m[i].k = key
  THEN CHOOSE i \in 1..Len(m) : m[i].k = key
  ELSE 0

MapSet(m, key, value) ==
  IF MapIndex(m, key) = 0
  THEN Append(m, [k |-> key, v |-> value])
  ELSE [m EXCEPT ![MapIndex(m, key)].v = value]

MapValues(m) == [i \in 1..Len(m) |-> m[i].v]

\* number of identifiers minted for the first i items of a list
Minted(items, i) == Cardinality({j \in 1..i : ~Truthy(items[j].id)})

\* REPLACE without the default of y
ReplaceNodesNoY(proposed, u) ==
  [i \in 1..Len(proposed) |->
     LET n == proposed[i]
     IN  [n EXCEPT !.id = IF Truthy(n.id) THEN n.id ELSE Mint(u + Minted(proposed, i - 1)),
                   !.color = Or(n.color, getColorForType(n.type))]]

ReplaceNodes(proposed, u) ==
  [i \in 1..Len(proposed) |->
     LET n == proposed[i]
     IN  [n EXCEPT !.id = IF Truthy(n.id) THEN n.id ELSE Mint(u + Minted(proposed, i - 1)),
                   !.color = Or(n.color, getColorForType(n.type)),
                   !.y = Nullish(n.y, JNum(0))]]

ReplaceConnections(proposed, u) ==
  [i \in 1..Len(proposed) |->
     LET c == proposed[i]
     IN  [c EXCEPT !.id = IF Truthy(c.id) THEN c.id ELSE Mint(u + Minted(proposed, i - 1)),
                   !.animated = IF Defined(c.animated) THEN c.animated ELSE JTrue]]

\* the object literal of nodeMap.set(n.id, {...}); has = FALSE when
\* nodeMap.get(n.id) is undefined
MergedNode(n, has, existing) ==
  [id |-> n.id,
   type |-> n.type,
   label |-> n.label,
   x |-> n.x,
   z |-> n.z,
   y |-> IF Defined(n.y) THEN n.y
         ELSE IF has THEN Nullish(existing.y, JNum(0)) ELSE JNum(0),
   color |-> Or(n.color, IF has THEN existing.color ELSE getColorForType(n.type)),
   provider |-> IF Defined(n.provider) THEN n.provider
                ELSE IF has THEN existing.provider ELSE JUndef,
   kind |-> IF Defined(n.kind) THEN n.kind
            ELSE IF has THEN existing.kind ELSE JUndef,
   parentId |-> IF Defined(n.parentId) THEN n.parentId
                ELSE IF has THEN existing.parentId ELSE JUndef,
   collapsed |-> IF Defined(n.collapsed) THEN n.collapsed
                 ELSE IF has THEN existing.collapsed ELSE JUndef,
   metadata |-> MetaObj([k \in MetaKeys |->
                  IF n.metadata.m[k] # NoKey THEN n.metadata.m[k]
                  ELSE IF has THEN existing.metadata.m[k] ELSE NoKey]),
   textureUrl |-> JUndef,
   dimensions |-> Or(n.dimensions, IF has THEN existing.dimensions ELSE DimUndef),
   fontSize |-> Or(n.fontSize, IF has THEN existing.fontSize ELSE JUndef)]

MergeNodes(current, proposed) ==
  LET nodeMap0 ==
        LET F[i \in 0..Len(current)] ==
              IF i = 0 THEN <<>> ELSE MapSet(F[i - 1], current[i].id, current[i])
        IN  F[Len(current)]
      G[i \in 0..Len(proposed)] ==
        IF i = 0 THEN nodeMap0
        ELSE LET n == proposed[i]
                 at == MapIndex(G[i - 1], n.id)
             IN  MapSet(G[i - 1], n.id,
                        IF at = 0 THEN MergedNode(n, FALSE, n)
                        ELSE MergedNode(n, TRUE, G[i - 1][at].v))
  IN  MapValues(G[Len(proposed)])

\* `${c.fromId}-${c.toId}`
ConnKey(c) == JStr(TemplateStr(c.fromId) \o "-" \o TemplateStr(c.toId))

\* the connection map after the first i proposals, with the number of
\* identifiers minted so far
MergeConnMap(current, proposed, u) ==
  LET connMap0 ==
        LET F[i \in 0..Len(current)] ==
              IF i = 0 THEN <<>> ELSE MapSet(F[i - 1], ConnKey(current[i]), current[i])
        IN  F[Len(current)]
      G[i \in 0..Len(proposed)] ==
        IF i = 0 THEN [m |-> connMap0, minted |-> 0]
        ELSE LET c == proposed[i]
                 m == G[i - 1].m
                 at == MapIndex(m, ConnKey(c))
             IN  IF at # 0
                 THEN LET existing == m[at].v
                      IN  [m |-> MapSet(m, ConnKey(c),
                                  [existing EXCEPT
                                     !.label = IF Defined(c.label) THEN c.label ELSE existing.label,
                                     !.animated = IF Defined(c.animated) THEN c.animated
                                                  ELSE existing.animated,
                                     !.category = IF Defined(c.category) THEN c.category
                                                  ELSE existing.category]),
                           minted |-> G[i - 1].minted]
                 ELSE [m |-> MapSet(m, ConnKey(c),
                              [id |-> IF Truthy(c.id) THEN c.id ELSE Mint(u + G[i - 1].minted),
                               fromId |-> c.fromId,
                               toId |-> c.toId,
                               label |-> c.label,
                               animated |-> IF Defined(c.animated) THEN c.animated ELSE JTrue,
                               category |-> c.category]),
                       minted |-> G[i - 1].minted + (IF Truthy(c.id) THEN 0 ELSE 1)]
  IN  G[Len(proposed)]

MergeConnections(current, proposed, u) == MapValues(MergeConnMap(current, proposed, u).m)

\* [nodes, connections, uuid] that handleGenerate passes to setNodes and
\* setConnections for a response applied to the snapshot snap
GenerateResult(snap, result, u) ==
  IF result.action = "REPLACE"
  THEN [nodes |-> ReplaceNodes(result.nodes, u),
        connections |-> ReplaceConnections(result.connections,
                                           u + Minted(result.nodes, Len(result.nodes))),
        uuid |-> u + Minted(result.nodes, Len(result.nodes))
                   + Minted(result.connections, Len(result.connections))]
  ELSE [nodes |-> MergeNodes(snap.nodes, result.nodes),
        connections |-> MergeConnections(snap.connections, result.connections, u),
        uuid |-> u + MergeConnMap(snap.connections, result.connections, u).minted]

RemoveAt(seq, i) == [j \in 1..(Len(seq) - 1) |-> IF j < i THEN seq[j] ELSE seq[j + 1]]

\* handleGenerate up to the await: generateArchitecture(prompt, nodes, connections)
GenerateStart ==
  /\ Tick
  /\ pending' = Append(pending, [nodes |-> nodes, connections |-> connections])
  /\ lastOp' = Op("generateStart", JNull, 0, 0, FALSE)
  /\ input' = NoInput
  /\ UNCHANGED <<nodes, connections, selectedIds, uuid, output, isDragging, loop>>

\* the i-th request in flight resolves with result
GenerateResolve(i, result) ==
  LET final == GenerateResult(pending[i], result, uuid)
  IN  /\ Tick
      /\ nodes' = final.nodes
      /\ connections' = final.connections
      /\ selectedIds' = {}
      /\ uuid' = final.uuid
      /\ pending' = RemoveAt(pending, i)
      /\ lastOp' = Op("generate", JNull, i, 0, FALSE)
      /\ input' = result
      /\ UNCHANGED <<output, isDragging, loop>>

\* what makes the await throw: the errors of generateArchitecture, a rejected
\* request, and a parsed response without a nodes array, on which
\* result.nodes.map / forEach throws before any setter is called
Failures ==
  {"API Key not found", "No response from AI", "Failed to parse AI response",
   "request rejected", "TypeError"}

\* a catch block that also clears the selection
GenerateFailClearing(i, failure) ==
  /\ Tick
  /\ selectedIds' = {}
  /\ pending' = RemoveAt(pending, i)
  /\ lastOp' = Op("generateFail", JNull, i, 0, FALSE)
  /\ input' = [kind |-> "failure", message |-> failure]
  /\ UNCHANGED <<nodes, connections, uuid, output, isDragging, loop>>

\* the i-th request in flight throws: the catch block reports and changes
\* nothing
GenerateFail(i, failure) ==
  /\ Tick
  /\ pending' = RemoveAt(pending, i)
  /\ lastOp' = Op("generateFail", JNull, i, 0, FALSE)
  /\ input' = [kind |-> "failure", message |-> failure]
  /\ UNCHANGED <<nodes, connections, selectedIds, uuid, output, isDragging, loop>>

-----------------------------------------------------------------------------
(* handleImport *)

ImportNodes(parsedNodes) ==
  [i \in 1..Len(parsedNodes) |->
     [parsedNodes[i] EXCEPT !.color = Or(parsedNodes[i].color,
                                         getColorForType(parsedNodes[i].type))]]

ImportConnections(parsedConnections) ==
  [i \in 1..Len(parsedConnections) |->
     [parsedConnections[i] EXCEPT
        !.animated = IF Defined(parsedConnections[i].animated)
                     THEN parsedConnections[i].animated ELSE JTrue]]

handleImport(text) ==
  LET parsed == parseAgenticFactoryJson(text)
  IN  /\ Tick
      /\ IF parsed.ok
         THEN /\ nodes' = ImportNodes(parsed.val[1].nodes)
              /\ connections' = ImportConnections(parsed.val[1].connections)
              /\ selectedIds' = {}
         ELSE UNCHANGED <<nodes, connections, selectedIds>>
      /\ lastOp' = Op("import", JNull, 0, 0, FALSE)
      /\ input' = text
      /\ UNCHANGED <<uuid, pending, output, isDragging, loop>>

-----------------------------------------------------------------------------
(* Untrusted payloads: what a file or a generation response can contain *)

\* the fields of a JSON object read as a node; an absent field reads undefined
NoFields ==
  [id |-> JUndef, type |-> JUndef, label |-> JUndef, x |-> JUndef, z |-> JUndef,
   y |-> JUndef, color |-> JUndef, provider |-> JUndef, kind |-> JUndef,
   parentId |-> JUndef, collapsed |-> JUndef, metadata |-> MetaUndef,
   textureUrl |-> JUndef, dimensions |-> DimUndef, fontSize |-> JUndef]

NoConnFields ==
  [id |-> JUndef, fromId |-> JUndef, toId |-> JUndef, label |-> JUndef,
   animated |-> JUndef, category |-> JUndef]

PNode(id, type, label, x, z) ==
  [NoFields EXCEPT !.id = JStr(id), !.type = JStr(type), !.label = JStr(label),
                   !.x = JNum(x), !.z = JNum(z)]

PConn(fromId, toId) ==
  [NoConnFields EXCEPT !.fromId = JStr(fromId), !.toId = JStr(toId)]

Obj(fields) == [t |-> "object", f |-> fields]

JsonDoc(version, nodeItems, connItems) ==
  [kind |-> "json", syntaxOk |-> TRUE,
   value |-> [t |-> "object", schemaVersion |-> version, createdAt |-> JUndef,
              nodes |-> [isArray |-> TRUE, items |-> nodeItems],
              connections |-> [isArray |-> TRUE, items |-> connItems]]]

-----------------------------------------------------------------------------
(* Scene: visibleNodes / isHidden, and the pointer handlers of AssetBlock *)

\* byId.get(id) as an index into ns, 0 for undefined: the Map is built from
\* nodes.map(n => [n.id, n]), so it holds the last node of each id
byIdGet(ns, id) ==
  IF \E i \in 1..Len(ns) : ns[i].id = id
  THEN CHOOSE i \in 1..Len(ns) : ns[i].id = id /\ \A j \in (i + 1)..Len(ns) : ns[j].id # id
  ELSE 0

\* const visited = new Set(); let cur = byId.get(nodeId);
WalkStart(ns, nodeId) ==
  [cur |-> byIdGet(ns, nodeId), visited |-> {}, done |-> FALSE, result |-> FALSE]

\* a guard that never sees a repeat
visitedHasNothing(visited, parentId) == FALSE

\* visited.has(cur.parentId)
visitedHas(visited, parentId) == parentId \in visited

\* one evaluation of `while (cur?.parentId) { ... }`: the test and, when it
\* passes, the body; done with result when the function returns
WalkStep(ns, w) ==
  IF w.cur = 0 \/ ~Truthy(ns[w.cur].parentId)
  THEN [w EXCEPT !.done = TRUE, !.result = FALSE]
  ELSE LET parentId == ns[w.cur].parentId
           parent == byIdGet(ns, parentId)
       IN  IF visitedHas(w.visited, parentId)
           THEN [w EXCEPT !.done = TRUE, !.result = FALSE]
           ELSE IF parent = 0
           THEN [w EXCEPT !.visited = @ \cup {parentId}, !.done = TRUE, !.result = FALSE]
           ELSE IF Truthy(ns[parent].collapsed)
           THEN [w EXCEPT !.visited = @ \cup {parentId}, !.done = TRUE, !.result = TRUE]
           ELSE [w EXCEPT !.visited = @ \cup {parentId}, !.cur = parent]

RECURSIVE WalkRun(_, _)
WalkRun(ns, w) == IF w.done THEN w.result ELSE WalkRun(ns, WalkStep(ns, w))

\* the set `hidden` is never added to, so hidden.has(nodeId) is false
isHidden(ns, nodeId) == WalkRun(ns, WalkStart(ns, nodeId))

visibleNodes(ns) == SelectSeqIdx(ns, LAMBDA n : ~isHidden(ns, n.id))

\* a lookup among all the nodes, hidden ones included
nodeByIdHas(ns, id) == id \in NodeIdsOf(ns)

\* visibleNodeById.get(id) is not undefined
visibleNodeByIdHas(ns, id) == id \in NodeIdsOf(visibleNodes(ns))

\* the connections for which connections.map returns a ConnectionLine
renderedConnections(ns, cs) ==
  SelectSeqIdx(cs, LAMBDA conn : visibleNodeByIdHas(ns, conn.fromId)
                                   /\ visibleNodeByIdHas(ns, conn.toId))

\* the blocks that are mounted, and those that mount the drag plane
\* ({isDragging && isSelected && <mesh onPointerMove onPointerUp>})
MountedIds == NodeIdsOf(visibleNodes(nodes))

DragPlaneIds == IF isDragging THEN MountedIds \cap selectedIds ELSE {}

\* AssetBlock.handlePointerDown of the block of id; meshRef.current is set
\* while the block is mounted
handlePointerDown(id, shiftKey) ==
  LET isSelected == id \in selectedIds
      multi == IF ~isSelected /\ ~shiftKey THEN FALSE ELSE shiftKey
  IN  /\ Tick
      /\ selectedIds' = SelectResult(selectedIds, id, multi)
      /\ isDragging' = TRUE
      /\ lastOp' = Op("pointerDown", id, 0, 0, shiftKey)
      /\ input' = NoInput
      /\ UNCHANGED <<nodes, connections, uuid, pending, output, loop>>

\* AssetBlock.handleDragMove of the block of id, the pointer being over the
\* grid point (x, z) once snapped
handleDragMove(id, x, z) ==
  /\ isDragging /\ id \in selectedIds
  /\ handleMoveNode(id, x, z)

\* AssetBlock.handlePointerUp of the block of id
handlePointerUp(id) ==
  /\ isDragging /\ id \in selectedIds
  /\ Tick
  /\ isDragging' = FALSE
  /\ lastOp' = Op("pointerUp", id, 0, 0, FALSE)
  /\ input' = NoInput
  /\ UNCHANGED <<nodes, connections, selectedIds, uuid, pending, output, loop>>

\* Scene.handleMissed
handleMissed(shiftKey) ==
  /\ ~isDragging
  /\ handleSelectNode(JNull, shiftKey)

-----------------------------------------------------------------------------

(* The initial state of App *)

InitialNodes ==
  << [NoFields EXCEPT !.id = JStr("1"), !.type = JStr("CONFIG"),
                      !.label = JStr("workflow_config.yaml"),
                      !.x = JNum(0), !.z = JNum(-10),
                      !.color = getColorForType(JStr("CONFIG")),
                      !.metadata = MetaObj([NoMeta EXCEPT !["path"] = "src/config"])] >>

NoOutput == [kind |-> "none"]

MaxSteps == 3

Init ==
  /\ nodes = InitialNodes
  /\ connections = <<>>
  /\ selectedIds = {}
  /\ uuid = 1
  /\ pending = <<>>
  /\ lastOp = Op("init", JNull, 0, 0, FALSE)
  /\ pre = [nodes |-> InitialNodes, connections |-> <<>>, selectedIds |-> {},
            pending |-> <<>>]
  /\ budget = MaxSteps
  /\ input = NoInput
  /\ output = NoOutput
  /\ isDragging = FALSE
  /\ loop = NoLoop

-----------------------------------------------------------------------------
(* Inputs of the handlers *)

\* an id that names no node: a block deleted while it is dragged
StaleId == JStr("zz")

\* grid points reported by AssetBlock.handleDragMove
MoveTargets == {<<0, 0>>, <<GRID_SIZE, GRID_SIZE>>, <<GRID_SIZE, 0>>, <<-GRID_SIZE, 0>>}

NodePatches ==
  {[collapsed |-> JTrue], [parentId |-> JStr("a")], [label |-> JStr("renamed")]}

ConnPatches == {[animated |-> JFalse], [label |-> JStr("renamed")]}

\* PropertyPanel, single node view: the node of the one selected id
PanelIds == IF Cardinality(selectedIds) = 1 THEN selectedIds \cap NodeIdsOf(nodes) ELSE {}

\* targets that leave the selected node in
potentialTargetsWithSelf(id) ==
  {t \in NodeIdsOf(nodes) :
     ~\E i \in 1..Len(connections) :
         \/ connections[i].fromId = id /\ connections[i].toId = t
         \/ connections[i].fromId = t /\ connections[i].toId = id}

\* PropertyPanel potentialTargets
potentialTargets(id) ==
  {t \in NodeIdsOf(nodes) :
     /\ t # id
     /\ ~\E i \in 1..Len(connections) :
           \/ connections[i].fromId = id /\ connections[i].toId = t
           \/ connections[i].fromId = t /\ connections[i].toId = id}

relatedConnections(id) ==
  {connections[i].id : i \in {j \in 1..Len(connections) :
      connections[j].fromId = id \/ connections[j].toId = id}}

\* Generation responses
Response(action, ns, cs) ==
  [kind |-> "response", action |-> action, nodes |-> ns, connections |-> cs]

RespMergeEmpty == Response("MERGE", <<>>, <<>>)

\* d is proposed again with only its required fields
RespMergeNode == Response("MERGE", <<PNode("d", "AGENT", "D2", 1, 1)>>, <<>>)

\* d is proposed with explicit optional fields, and a new node n
RespMergeFields ==
  Response("MERGE",
    << [PNode("d", "TOOL", "D3", 6, 6) EXCEPT
          !.y = JNum(2), !.color = JStr("#000"), !.provider = JStr("DSPy"),
          !.kind = JStr("k2"), !.parentId = JStr("a"), !.collapsed = JFalse,
          !.metadata = MetaObj([NoMeta EXCEPT !["role"] = "r2"]),
          !.dimensions = DimObj(JNum(2), JNum(2)), !.fontSize = JNum(3)],
       PNode("n", "TASK", "N", 8, 8) >>,
    <<>>)

\* a -> b exists in the graph; b -> a and a -> c may not
RespMergeConns ==
  Response("MERGE", <<>>,
    << [PConn("a", "b") EXCEPT !.label = JStr("p1")],
       PConn("b", "a"),
       [PConn("a", "c") EXCEPT !.id = JStr("p3"), !.animated = JFalse] >>)

\* two proposals with the same ordered pair
RespMergeTwice ==
  Response("MERGE", <<>>,
    << [PConn("c", "a") EXCEPT !.label = JStr("first"), !.category = JStr("dependsOn")],
       [PConn("c", "a") EXCEPT !.label = JStr("second"), !.animated = JFalse] >>)

\* another ordered pair with the same concatenation as "a-b" -> "c"
RespMergeHyphen ==
  Response("MERGE", <<>>, << [PConn("a", "b-c") EXCEPT !.label = JStr("other")] >>)

RespReplace ==
  Response("REPLACE",
    << PNode("r1", "AGENT", "R1", 0, 0),
       [NoFields EXCEPT !.type = JStr("SURFACE"), !.label = JStr("R2"),
                        !.x = JNum(2), !.z = JNum(2), !.y = JNum(1),
                        !.color = JStr("#abc")],
       [NoFields EXCEPT !.type = JStr("TOOL"), !.label = JStr("R3"),
                        !.x = JNum(4), !.z = JNum(0), !.y = JNull] >>,
    << PConn("r1", "r2"),
       [PConn("r1", "r1") EXCEPT !.id = JStr("k1"), !.animated = JFalse,
                                 !.label = JStr("loop")] >>)

RespReplaceEmpty == Response("REPLACE", <<>>, <<>>)

\* a node type outside the enum
RespBadType == Response("REPLACE", <<PNode("r1", "ROBOT", "R1", 0, 0)>>, <<>>)

\* an empty label and a connection without fromId
RespBadShape ==
  Response("MERGE", <<PNode("m", "AGENT", "", 0, 0)>>,
           << [NoConnFields EXCEPT !.toId = JStr("a")] >>)

Responses ==
  {RespMergeEmpty, RespMergeNode, RespMergeFields, RespMergeConns, RespMergeTwice,
   RespMergeHyphen, RespReplace, RespReplaceEmpty, RespBadType, RespBadShape}

\* Files offered to handleImport
DocBadJson == [JsonDoc(JUndef, <<>>, <<>>) EXCEPT !.syntaxOk = FALSE]

DocLegacy ==
  JsonDoc(JUndef,
          << Obj([PNode("1", "AGENT", "X", 0, 0) EXCEPT !.color = JStr("#fff")]) >>,
          <<>>)

DocV1 ==
  JsonDoc(JNum(1),
          << Obj(PNode("p", "SURFACE", "P", 0, 0)),
             Obj([PNode("q", "AGENT", "Q", 2, 0) EXCEPT !.color = JStr(""),
                                                       !.parentId = JStr("p")]) >>,
          << Obj(PConn("p", "q")) >>)

DocV2 == JsonDoc(JNum(2), <<Obj(PNode("p", "AGENT", "P", 0, 0))>>, <<>>)

DocBadNode ==
  JsonDoc(JNum(1),
          << Obj(PNode("p", "AGENT", "P", 0, 0)), Obj(PNode("q", "ROBOT", "Q", 2, 0)) >>,
          <<>>)

DocBadConn ==
  JsonDoc(JUndef, << Obj(PNode("p", "AGENT", "P", 0, 0)) >>,
          << Obj(PConn("p", "")) >>)

DocNoArray ==
  [DocLegacy EXCEPT !.value.nodes = [isArray |-> FALSE, items |-> <<>>]]

DocEmpty == JsonDoc(JNum(1), <<>>, <<>>)

\* two valid nodes with the same id
DocSameId ==
  JsonDoc(JNum(1),
          << Obj(PNode("p", "AGENT", "P", 0, 0)), Obj(PNode("p", "TOOL", "P2", 2, 0)) >>,
          <<>>)

ImportDocs ==
  {DocBadJson, DocLegacy, DocV1, DocV2, DocBadNode, DocBadConn, DocNoArray, DocEmpty,
   DocSameId}

-----------------------------------------------------------------------------
(* The next-state relation: one disjunct per handler *)

SelectNode ==
  \E id \in NodeIdsOf(nodes) \cup {JNull}, multi \in BOOLEAN : handleSelectNode(id, multi)

AddNode == \E type \in NodeType : handleAddNode(type)

\* the templates of the sidebar, and an id that names none
AddTemplate ==
  \E templateId \in TemplateIds \cup {"no_such_template"} : handleAddTemplate(templateId)

MoveNode ==
  \E id \in NodeIdsOf(nodes) \cup {StaleId}, target \in MoveTargets :
     handleMoveNode(id, target[1], target[2])

UpdateNode == \E id \in PanelIds, data \in NodePatches : handleUpdateNode(id, data)

DeleteNode == \E id \in NodeIdsOf(nodes) \cup selectedIds : handleDeleteNode(id)

\* PropertyPanel shows the Group button when several blocks are selected;
\* the handler itself may run with any selection
GroupNodes == handleGroupNodes

\* a panel that also offers a target that is not in the node list
AddConnectionAnyTarget ==
  \E id \in PanelIds : \E t \in potentialTargets(id) \cup {StaleId} :
     handleAddConnection(id, t)

AddConnection ==
  \E id \in PanelIds : \E t \in potentialTargets(id) : handleAddConnection(id, t)

RemoveConnection ==
  \E id \in PanelIds : \E c \in relatedConnections(id) : handleRemoveConnection(c)

UpdateConnection ==
  \E id \in PanelIds : \E c \in relatedConnections(id), data \in ConnPatches :
     handleUpdateConnection(c, data)

Generate == \E i \in 1..Len(pending), result \in Responses : GenerateResolve(i, result)

GenerateError ==
  \E i \in 1..Len(pending), failure \in Failures : GenerateFail(i, failure)

Import == \E text \in ImportDocs : handleImport(text)

Next ==
  \/ SelectNode
  \/ AddNode
  \/ AddTemplate
  \/ MoveNode
  \/ UpdateNode
  \/ DeleteNode
  \/ GroupNodes
  \/ AddConnection
  \/ RemoveConnection
  \/ UpdateConnection
  \/ GenerateStart
  \/ Generate
  \/ GenerateError
  \/ Import

Spec == Init /\ [][Next]_vars

-----------------------------------------------------------------------------
(* Any graph: the states App is in after a file of the family below has    *)
(* been imported and some of its blocks have been clicked.  The family     *)
(* varies the parentId of a, b and c (cycles included), what a and b are,  *)
(* a second node with the id of d, and the connection list.                *)

Dim44 == DimObj(JNum(4), JNum(4))

FamilyA(variant, parent) ==
  [PNode("a", IF variant = "agent" THEN "AGENT" ELSE "SURFACE", "A", 0, 0) EXCEPT
     !.dimensions = IF variant = "nodims" THEN DimUndef ELSE Dim44,
     !.parentId = parent]

FamilyB(variant, parent) ==
  [PNode("b", IF variant = "agent" THEN "AGENT" ELSE "SURFACE", "B", 2, 0) EXCEPT
     !.dimensions = IF variant = "agent" THEN DimUndef ELSE Dim44,
     !.parentId = parent]

FamilyC(parent) == [PNode("c", "AGENT", "C", 4, 0) EXCEPT !.parentId = parent]

FamilyD ==
  [PNode("d", "AGENT", "D", 1, 1) EXCEPT
     !.y = JNum(1), !.color = JStr("#fff"), !.provider = JStr("Foundry"),
     !.kind = JStr("k1"), !.collapsed = JTrue, !.textureUrl = JStr("data:tex"),
     !.metadata = MetaObj([NoMeta EXCEPT !["model"] = "m1", !["role"] = "r1"]),
     !.fontSize = JNum(1)]

FamilyDup == PNode("d", "TASK", "D'", 6, 6)

FamilyNodes(va, vb, pa, pb, pc, dup) ==
  << Obj(FamilyA(va, pa)), Obj(FamilyB(vb, pb)), Obj(FamilyC(pc)), Obj(FamilyD) >>
  \o (IF dup THEN << Obj(FamilyDup) >> ELSE <<>>)

FamilyConns(variant) ==
  CASE variant = "none" -> <<>>
    [] variant = "plain" ->
         << Obj([PConn("a", "b") EXCEPT !.id = JStr("e1"), !.label = JStr("l1"),
                                        !.animated = JFalse,
                                        !.category = JStr("controlFlow")]),
            Obj(PConn("c", "d")) >>
    [] variant = "hyphen" ->
         << Obj([PConn("a", "b") EXCEPT !.id = JStr("e1"), !.label = JStr("l1")]),
            Obj([PConn("a-b", "c") EXCEPT !.id = JStr("e4")]) >>
    [] OTHER ->
         << Obj([PConn("a", "b") EXCEPT !.id = JStr("e1"), !.label = JStr("l1")]),
            Obj([PConn("a", "b") EXCEPT !.id = JStr("e2")]),
            Obj([PConn("d", "zz") EXCEPT !.id = JStr("e3")]) >>

ParentsOfA == {JUndef, JStr("a"), JStr("b")}

ParentsOfB == {JUndef, JStr("a"), JStr("c")}

ParentsOfC == {JUndef, JStr("a"), JStr("b")}

FamilyDocs ==
  {JsonDoc(JNum(1), FamilyNodes(va, vb, pa, pb, pc, dup), FamilyConns(vc)) :
     va \in {"surface", "nodims", "agent"}, vb \in {"agent", "surface"},
     pa \in ParentsOfA, pb \in ParentsOfB, pc \in ParentsOfC,
     dup \in BOOLEAN, vc \in {"plain"}}
  \cup
  {JsonDoc(JUndef, FamilyNodes("surface", vb, JUndef, JUndef, pc, FALSE), FamilyConns(vc)) :
     vb \in {"agent", "surface"}, pc \in ParentsOfC, vc \in {"none", "hyphen", "odd"}}

ImportedNodes(doc) == ImportNodes(parseAgenticFactoryJson(doc).val[1].nodes)

ImportedConnections(doc) ==
  ImportConnections(parseAgenticFactoryJson(doc).val[1].connections)

\* the requests that can be in flight once doc is loaded: sent before the
\* import (from the initial graph) or after it
InitialSnapshot == [nodes |-> InitialNodes, connections |-> <<>>]

InFlight(doc) ==
  LET now == [nodes |-> ImportedNodes(doc), connections |-> ImportedConnections(doc)]
  IN  {<<>>, <<now>>, <<InitialSnapshot>>, <<InitialSnapshot, now>>}

InitAny ==
  \E doc \in FamilyDocs :
    /\ nodes = ImportedNodes(doc)
    /\ connections = ImportedConnections(doc)
    /\ selectedIds \in SUBSET NodeIdsOf(ImportedNodes(doc))
    /\ pending \in InFlight(doc)
    /\ pending # <<>> => selectedIds \in {{}, {JStr("a")}}
    /\ uuid = 1
    /\ lastOp = Op("init", JNull, 0, 0, FALSE)
    /\ pre = [nodes |-> nodes, connections |-> connections,
              selectedIds |-> selectedIds, pending |-> pending]
    /\ budget = 1
    /\ input = NoInput
    /\ output = NoOutput
    /\ isDragging = FALSE
    /\ loop = NoLoop

SpecAny == InitAny /\ [][Next]_vars

-----------------------------------------------------------------------------
(* Group, then move: App with a file of the family loaded, two or more     *)
(* blocks selected and no request in flight; the Group button and drags    *)

GroupMoveSteps == 2

GroupDocs ==
  {JsonDoc(JNum(1), FamilyNodes(va, vb, JUndef, JUndef, pc, dup), FamilyConns("plain")) :
     va \in {"surface", "nodims", "agent"}, vb \in {"agent", "surface"},
     pc \in ParentsOfC, dup \in BOOLEAN}

InitGroupMove ==
  \E doc \in GroupDocs :
    /\ nodes = ImportedNodes(doc)
    /\ connections = ImportedConnections(doc)
    /\ selectedIds \in {s \in SUBSET NodeIdsOf(ImportedNodes(doc)) : Cardinality(s) >= 2}
    /\ pending = <<>>
    /\ uuid = 1
    /\ lastOp = Op("init", JNull, 0, 0, FALSE)
    /\ pre = [nodes |-> nodes, connections |-> connections,
              selectedIds |-> selectedIds, pending |-> pending]
    /\ budget = GroupMoveSteps
    /\ input = NoInput
    /\ output = NoOutput
    /\ isDragging = FALSE
    /\ loop = NoLoop

NextGroupMove ==
  \/ GroupNodes
  \/ MoveNode

SpecGroupMove == InitGroupMove /\ [][NextGroupMove]_vars

-----------------------------------------------------------------------------

(* The scene: App with a file of the hierarchy family loaded; presses,     *)
(* drags and releases on the mounted blocks, clicks on the background and  *)
(* edits in the property panel                                             *)

SceneSteps == 2

SceneA(parent, collapsed) ==
  [PNode("a", "SURFACE", "A", 0, 0) EXCEPT
     !.dimensions = Dim44, !.parentId = parent, !.collapsed = collapsed]

SceneB(parent, collapsed) ==
  [PNode("b", "AGENT", "B", 2, 0) EXCEPT !.parentId = parent, !.collapsed = collapsed]

SceneC == PNode("c", "AGENT", "C", 4, 0)

SceneD(parent) == [PNode("d", "AGENT", "D", 1, 1) EXCEPT !.parentId = parent]

SceneNodes(pa, ca, pb, cb, pd, dup) ==
  << Obj(SceneA(pa, ca)), Obj(SceneB(pb, cb)), Obj(SceneC), Obj(SceneD(pd)) >>
  \o (IF dup THEN << Obj(FamilyDup) >> ELSE <<>>)

\* a -> b, c -> d, and a connection to a node that is not there
SceneConns ==
  FamilyConns("plain") \o << Obj([PConn("d", "zz") EXCEPT !.id = JStr("e3")]) >>

SceneDocs ==
  {JsonDoc(JNum(1), SceneNodes(pa, ca, pb, cb, pd, dup), SceneConns) :
     pa \in {JUndef, JStr("a"), JStr("b")}, ca \in {JUndef, JTrue},
     pb \in {JUndef, JStr("a"), StaleId}, cb \in {JUndef, JTrue},
     pd \in {JUndef, JStr("b")}, dup \in BOOLEAN}

SceneSelections ==
  {{}, {JStr("b")}, {JStr("a"), JStr("b")}, {JStr("b"), JStr("c"), JStr("d")}}

InitScene ==
  \E doc \in SceneDocs :
    /\ nodes = ImportedNodes(doc)
    /\ connections = ImportedConnections(doc)
    /\ selectedIds \in SceneSelections
    /\ pending = <<>>
    /\ uuid = 1
    /\ lastOp = Op("init", JNull, 0, 0, FALSE)
    /\ pre = [nodes |-> nodes, connections |-> connections,
              selectedIds |-> selectedIds, pending |-> pending]
    /\ budget = SceneSteps
    /\ input = NoInput
    /\ output = NoOutput
    /\ isDragging = FALSE
    /\ loop = NoLoop

PointerDown == \E id \in MountedIds, shiftKey \in BOOLEAN : handlePointerDown(id, shiftKey)

DragMove ==
  \E id \in DragPlaneIds, target \in MoveTargets : handleDragMove(id, target[1], target[2])

PointerUp == \E id \in DragPlaneIds : handlePointerUp(id)

PointerMissed == \E shiftKey \in BOOLEAN : handleMissed(shiftKey)

NextScene ==
  \/ PointerDown
  \/ DragMove
  \/ PointerUp
  \/ PointerMissed
  \/ UpdateNode

SpecScene == InitScene /\ [][NextScene]_vars

-----------------------------------------------------------------------------

(* One drag: a press on a block, the move events of the drag plane and     *)
(* the release, on the scene graphs with every block shown                 *)

DragSteps == 3

DragDocs ==
  {JsonDoc(JNum(1), SceneNodes(JUndef, JUndef, pb, JUndef, pd, dup), SceneConns) :
     pb \in {JUndef, JStr("a")}, pd \in {JUndef, JStr("b")}, dup \in BOOLEAN}

InitDrag ==
  \E doc \in DragDocs :
    /\ nodes = ImportedNodes(doc)
    /\ connections = ImportedConnections(doc)
    /\ selectedIds \in SceneSelections
    /\ pending = <<>>
    /\ uuid = 1
    /\ lastOp = Op("init", JNull, 0, 0, FALSE)
    /\ pre = [nodes |-> nodes, connections |-> connections,
              selectedIds |-> selectedIds, pending |-> pending]
    /\ budget = DragSteps
    /\ input = NoInput
    /\ output = NoOutput
    /\ isDragging = FALSE
    /\ loop = NoLoop

NextDrag ==
  \/ PointerDown
  \/ DragMove
  \/ PointerUp

SpecDrag == InitDrag /\ [][NextDrag]_vars

-----------------------------------------------------------------------------

(* The loops, one evaluation of the loop test per step: the walk of        *)
(* isHidden, the closure of cascadeDelete and the closure of               *)
(* handleMoveNode, each started on a graph of the hierarchy family         *)

\* `while (addedNew) { addedNew = false; for (...) {...} }` of cascadeDelete
CascadeIteration(c, allNodes) ==
  IF ~c.addedNew THEN [c EXCEPT !.done = TRUE]
  ELSE LET next == CascadePass(c.ids, allNodes)
       IN  [c EXCEPT !.ids = next, !.addedNew = (next # c.ids)]

\* `while (addedNew) { addedNew = false; 1) ... 2) ... }` of handleMoveNode
MoveIteration(c, prev) ==
  IF ~c.addedNew THEN [c EXCEPT !.done = TRUE]
  ELSE LET next == SurfacePass(HierarchyPass(c.ids, prev), prev)
       IN  [c EXCEPT !.ids = next, !.addedNew = (next # c.ids)]

\* const toDelete = new Set(initial); let addedNew = true;
ClosureStart(seed) == [ids |-> seed, addedNew |-> TRUE, done |-> FALSE]

LoopStarts ==
  {[kind |-> "isHidden", nodeId |-> id, w |-> WalkStart(nodes, id)] :
     id \in NodeIdsOf(nodes)}
  \cup
  {[kind |-> "cascadeDelete", nodeId |-> id,
    w |-> ClosureStart(DeleteSeed(selectedIds, id))] : id \in NodeIdsOf(nodes)}
  \cup
  {[kind |-> "handleMoveNode", nodeId |-> id,
    w |-> ClosureStart(MoveSeed(selectedIds, id))] : id \in NodeIdsOf(nodes)}

InitLoops ==
  \E doc \in SceneDocs :
    /\ nodes = ImportedNodes(doc)
    /\ connections = ImportedConnections(doc)
    /\ selectedIds \in SceneSelections
    /\ pending = <<>>
    /\ uuid = 1
    /\ lastOp = Op("init", JNull, 0, 0, FALSE)
    /\ pre = [nodes |-> nodes, connections |-> connections,
              selectedIds |-> selectedIds, pending |-> pending]
    /\ budget = 0
    /\ input = NoInput
    /\ output = NoOutput
    /\ isDragging = FALSE
    /\ loop \in LoopStarts

isHiddenStep ==
  /\ loop.kind = "isHidden"
  /\ ~loop.w.done
  /\ loop' = [loop EXCEPT !.w = WalkStep(nodes, loop.w)]
  /\ UNCHANGED <<nodes, connections, selectedIds, uuid, pending, lastOp, pre,
                 budget, input, output, isDragging>>

cascadeDeleteStep ==
  /\ loop.kind = "cascadeDelete"
  /\ ~loop.w.done
  /\ loop' = [loop EXCEPT !.w = CascadeIteration(loop.w, nodes)]
  /\ UNCHANGED <<nodes, connections, selectedIds, uuid, pending, lastOp, pre,
                 budget, input, output, isDragging>>

handleMoveNodeStep ==
  /\ loop.kind = "handleMoveNode"
  /\ ~loop.w.done
  /\ loop' = [loop EXCEPT !.w = MoveIteration(loop.w, nodes)]
  /\ UNCHANGED <<nodes, connections, selectedIds, uuid, pending, lastOp, pre,
                 budget, input, output, isDragging>>

NextLoops ==
  \/ isHiddenStep
  \/ cascadeDeleteStep
  \/ handleMoveNodeStep

\* a loop that is running takes its next step
SpecLoops == InitLoops /\ [][NextLoops]_vars /\ WF_vars(NextLoops)

-----------------------------------------------------------------------------

(* normalizeNode on its own: every payload of RawNodes is normalized once *)

WrongShapes ==
  [NoFields EXCEPT
     !.provider = JStr("Nope"), !.kind = JNum(1), !.parentId = JNum(7),
     !.collapsed = JStr("true"), !.metadata = [t |-> "string", m |-> NoMeta],
     !.textureUrl = JTrue, !.dimensions = [t |-> "object", width |-> JUndef,
                                           depth |-> JStr("9")],
     !.fontSize = JStr("12")]

RightShapes ==
  [NoFields EXCEPT
     !.provider = JStr("DSPy"), !.kind = JStr("k"), !.parentId = JStr("p"),
     !.collapsed = JTrue, !.metadata = MetaObj([NoMeta EXCEPT !["role"] = "r"]),
     !.textureUrl = JStr("data:tex"), !.dimensions = DimObj(JNum(6), JInf),
     !.fontSize = JNum(2)]

RawFields ==
  {[opt EXCEPT !.id = id, !.type = type, !.label = label, !.x = x, !.z = z,
               !.y = y, !.color = color] :
     opt \in {NoFields, WrongShapes, RightShapes},
     id \in {JUndef, JStr(""), JStr("a"), JNum(5)},
     type \in {JUndef, JStr("AGENT"), JStr("ROBOT"), JStr("SURFACE")},
     label \in {JUndef, JStr(""), JStr("L")},
     x \in {JUndef, JNum(2), JInf, JStr("2")},
     z \in {JNum(-4), JNull},
     y \in {JUndef, JNum(1), JStr("2"), JStr("abc"), JStr("")},
     color \in {JUndef, JStr("#fff"), JNum(1)}}

RawNodes ==
  {[kind |-> "rawNode", raw |-> Obj(f)] : f \in RawFields}
  \cup {[kind |-> "rawNode", raw |-> [t |-> t, f |-> NoFields]] :
          t \in {"null", "string", "array"}}

Idle(ns) ==
  /\ nodes = ns
  /\ connections = <<>>
  /\ selectedIds = {}
  /\ uuid = 1
  /\ pending = <<>>
  /\ lastOp = Op("init", JNull, 0, 0, FALSE)
  /\ pre = [nodes |-> ns, connections |-> <<>>, selectedIds |-> {}, pending |-> <<>>]
  /\ budget = 0
  /\ isDragging = FALSE
  /\ loop = NoLoop

InitNormalize ==
  /\ Idle(InitialNodes)
  /\ input \in RawNodes
  /\ output = NoOutput

NormalizeStep ==
  /\ input.kind = "rawNode"
  /\ output.kind = "none"
  /\ output' = [kind |-> "normalized", r |-> normalizeNode(input.raw)]
  /\ UNCHANGED <<nodes, connections, selectedIds, uuid, pending, lastOp, pre,
                 budget, input,
                 isDragging, loop>>

SpecNormalize == InitNormalize /\ [][NormalizeStep]_vars

-----------------------------------------------------------------------------
(* parseAgenticFactoryJson on its own, followed by the export of what was  *)
(* decoded (handleImport, then handleExport)                               *)

NotArray == [isArray |-> FALSE, items |-> <<>>]

ArrayOf(items) == [isArray |-> TRUE, items |-> items]

GoodNode == Obj([PNode("1", "AGENT", "X", 0, 0) EXCEPT !.color = JStr("#fff")])

BadNode == Obj(PNode("2", "AGENT", "", 0, 0))

GoodConn == Obj(PConn("1", "2"))

BadConn == Obj([NoConnFields EXCEPT !.toId = JStr("2")])

JsonTexts ==
  {[kind |-> "json", syntaxOk |-> TRUE,
    value |-> [t |-> "object", schemaVersion |-> version, createdAt |-> createdAt,
               nodes |-> ns, connections |-> cs]] :
     version \in {JUndef, JNum(1), JNum(2), JStr("1"), JNull},
     createdAt \in {JUndef, JStr("2024-01-01T00:00:00.000Z")},
     ns \in {NotArray, ArrayOf(<<>>), ArrayOf(<<GoodNode>>),
             ArrayOf(<<GoodNode, BadNode>>), ArrayOf(<<GoodNode, GoodNode>>)},
     cs \in {NotArray, ArrayOf(<<>>), ArrayOf(<<GoodConn>>), ArrayOf(<<BadConn>>)}}
  \cup
  {[kind |-> "json", syntaxOk |-> ok,
    value |-> [t |-> t, schemaVersion |-> JUndef, createdAt |-> JUndef,
               nodes |-> NotArray, connections |-> NotArray]] :
     ok \in BOOLEAN, t \in {"array", "null", "string", "object"}}

InitParse ==
  /\ Idle(InitialNodes)
  /\ input \in JsonTexts
  /\ output = NoOutput

ParseStep ==
  /\ input.kind = "json"
  /\ output.kind = "none"
  /\ output' = [kind |-> "parsed", r |-> parseAgenticFactoryJson(input)]
  /\ UNCHANGED <<nodes, connections, selectedIds, uuid, pending, lastOp, pre,
                 budget, input,
                 isDragging, loop>>

\* handleImport stores the decoded graph, handleExport wraps the stored graph
ExportStep ==
  /\ output.kind = "parsed"
  /\ output.r.ok
  /\ nodes' = ImportNodes(output.r.val[1].nodes)
  /\ connections' = ImportConnections(output.r.val[1].connections)
  /\ output' = [kind |-> "exported",
                file |-> createAgenticFactoryFile(nodes', connections', JUndef)]
  /\ UNCHANGED <<selectedIds, uuid, pending, lastOp, pre, budget, input,
                 isDragging, loop>>

NextParse == ParseStep \/ ExportStep

SpecParse == InitParse /\ [][NextParse]_vars

-----------------------------------------------------------------------------
(* Export then import: createAgenticFactoryFile, serializeAgenticFactoryFile *)
(* and parseAgenticFactoryJson on graphs made of normalized entities        *)

\* the optional fields of RightShapes with a font size written 1e999, which
\* JSON.parse reads as Infinity
OverflowShapes == [RightShapes EXCEPT !.fontSize = JInf]

RoundTripFields ==
  {[opt EXCEPT !.id = JStr(id), !.type = JStr("ANNOTATION"), !.label = JStr("L"),
               !.x = x, !.z = JNum(-4), !.y = y, !.color = color] :
     opt \in {NoFields, WrongShapes, RightShapes, OverflowShapes},
     id \in {"a", "b"},
     x \in {JUndef, JNum(2), JInf},
     y \in {JUndef, JNum(1), JStr("2"), JStr("abc")},
     color \in {JUndef, JStr("#fff"), JStr("")}}

\* what normalizeNode returns for these payloads
NormalizedNodes == {normalizeNode(Obj(f)).val[1] : f \in RoundTripFields}

NormalizedConnections ==
  {normalizeConnection(Obj(c)).val[1] :
     c \in {PConn("a", "b"),
            [PConn("b", "a") EXCEPT !.id = JStr("k"), !.label = JStr("l"),
                                    !.animated = JFalse, !.category = JStr("dataFlow")],
            [PConn("a", "a") EXCEPT !.label = JNum(3), !.animated = JStr("yes"),
                                    !.category = JStr("none")]}}

InitRoundTrip ==
  /\ \E n \in NormalizedNodes :
       nodes \in {<<n>>, <<n, [n EXCEPT !.id = JStr("c"), !.fontSize = JUndef]>>}
  /\ connections \in {<<>>} \cup {<<c>> : c \in NormalizedConnections}
                     \cup {<<c, c>> : c \in NormalizedConnections}
  /\ selectedIds = {}
  /\ uuid = 1
  /\ pending = <<>>
  /\ lastOp = Op("init", JNull, 0, 0, FALSE)
  /\ pre = [nodes |-> nodes, connections |-> connections, selectedIds |-> {},
            pending |-> <<>>]
  /\ budget = 0
  /\ isDragging = FALSE
  /\ loop = NoLoop
  /\ input = NoInput
  /\ output = NoOutput

\* handleExport: the text written to the file
EncodeStep ==
  /\ output.kind = "none"
  /\ output' = [kind |-> "encoded",
                text |-> serializeAgenticFactoryFile(
                           createAgenticFactoryFile(nodes, connections, JUndef))]
  /\ UNCHANGED <<nodes, connections, selectedIds, uuid, pending, lastOp, pre,
                 budget, input,
                 isDragging, loop>>

\* parseAgenticFactoryJson on that text
DecodeStep ==
  /\ output.kind = "encoded"
  /\ output' = [kind |-> "decoded", r |-> parseAgenticFactoryJson(output.text)]
  /\ UNCHANGED <<nodes, connections, selectedIds, uuid, pending, lastOp, pre,
                 budget, input,
                 isDragging, loop>>

NextRoundTrip == EncodeStep \/ DecodeStep

SpecRoundTrip == InitRoundTrip /\ [][NextRoundTrip]_vars

-----------------------------------------------------------------------------
(* Properties.  lastOp names the handler that produced the current state,  *)
(* pre is the state it ran in and input its payload.                        *)

\* the least subset of universe that contains seed and is closed under Closed
LeastClosed(universe, seed, Closed(_)) ==
  LET closedSets == {T \in SUBSET universe : seed \subseteq T /\ Closed(T)}
  IN  {i \in universe : \A T \in closedSets : i \in T}

\* T contains every node whose parentId is in T
ParentClosed(ns, T) == \A k \in 1..Len(ns) : ns[k].parentId \in T => ns[k].id \in T

\* C1.  Delete removes exactly D, the least set of ids that contains the seed
\* (the selection if the target is selected, else the target) and every node
\* whose parentId is in D, and exactly the connections with an endpoint in D;
\* what is left is unchanged and in order; the selection is empty.
C1_DeleteCascade ==
  lastOp.op = "delete" =>
    LET seed == IF lastOp.id \in pre.selectedIds THEN pre.selectedIds ELSE {lastOp.id}
        D == LeastClosed(NodeIdsOf(pre.nodes) \cup seed, seed,
                         LAMBDA T : ParentClosed(pre.nodes, T))
    IN  /\ nodes = SelectSeqIdx(pre.nodes, LAMBDA n : n.id \notin D)
        /\ connections = SelectSeqIdx(pre.connections,
                                      LAMBDA c : c.fromId \notin D /\ c.toId \notin D)
        /\ selectedIds = {}

\* a was deleted with b under a and c under b: all three are gone, and d,
\* which only stands on the surface a, is still there
C1_Witness ==
  /\ lastOp = Op("delete", JStr("a"), 0, 0, FALSE)
  /\ pre.selectedIds = {}
  /\ pre.nodes[1].type = JStr("SURFACE") /\ Truthy(pre.nodes[1].dimensions)
  /\ pre.nodes[2].parentId = JStr("a")
  /\ pre.nodes[3].parentId = JStr("b")
  /\ NodeIdsOf(nodes) = {JStr("d")}
  /\ Len(connections) < Len(pre.connections)

\* n lies in the inclusive rectangle [x - width/2, x + width/2] x
\* [z - depth/2, z + depth/2] of s (coordinates doubled)
InRectangle(s, n) ==
  LET w == s.dimensions.width.n
      d == s.dimensions.depth.n
  IN  /\ 2 * s.x.n - w <= 2 * n.x.n /\ 2 * n.x.n <= 2 * s.x.n + w
      /\ 2 * s.z.n - d <= 2 * n.z.n /\ 2 * n.z.n <= 2 * s.z.n + d

\* T contains every node that stands on a SURFACE with dimensions of T
SurfaceClosed(ns, T) ==
  \A i, k \in 1..Len(ns) :
     /\ ns[i].id \in T
     /\ ns[i].type = JStr("SURFACE")
     /\ ns[i].dimensions.t = "object"
     /\ InRectangle(ns[i], ns[k])
     => ns[k].id \in T

\* C2.  Move: a stale id or a zero displacement leaves the node list as it
\* is; otherwise exactly the nodes whose id is in M are translated by
\* (dx, dz), M being the least set that contains the seed and is closed under
\* the parentId rule and the surface rule; connections and selection are kept.
C2_MoveClosure ==
  lastOp.op = "move" =>
    LET old == pre.nodes
        at == {i \in 1..Len(old) : old[i].id = lastOp.id}
        first == CHOOSE i \in at : \A j \in at : i <= j
        dx == lastOp.x - old[first].x.n
        dz == lastOp.z - old[first].z.n
        seed == IF lastOp.id \in pre.selectedIds THEN pre.selectedIds ELSE {lastOp.id}
        M == LeastClosed(NodeIdsOf(old) \cup seed, seed,
                         LAMBDA T : ParentClosed(old, T) /\ SurfaceClosed(old, T))
    IN  /\ connections = pre.connections
        /\ selectedIds = pre.selectedIds
        /\ Len(nodes) = Len(old)
        /\ IF at = {} \/ (dx = 0 /\ dz = 0)
           THEN nodes = old
           ELSE \A i \in 1..Len(old) :
                  nodes[i] = IF old[i].id \in M
                             THEN [old[i] EXCEPT !.x = JNum(old[i].x.n + dx),
                                                 !.z = JNum(old[i].z.n + dz)]
                             ELSE old[i]

\* the surface a (4 x 4 at (0,0)) was moved to (2,2): d went from (1,1) to
\* (3,3), and c, which stood on the surface b that stood on a, moved as well
C2_Witness ==
  /\ lastOp = Op("move", JStr("a"), 2, 2, FALSE)
  /\ pre.selectedIds = {}
  /\ pre.nodes[1].type = JStr("SURFACE") /\ pre.nodes[1].dimensions = Dim44
  /\ pre.nodes[1].x = JNum(0) /\ pre.nodes[1].z = JNum(0)
  /\ pre.nodes[4].x = JNum(1) /\ pre.nodes[4].z = JNum(1)
  /\ nodes[4].id = JStr("d") /\ nodes[4].x = JNum(3) /\ nodes[4].z = JNum(3)
  /\ pre.nodes[3].parentId = JUndef /\ pre.nodes[2].parentId = JUndef
  /\ ~InRectangle(pre.nodes[1], pre.nodes[3])
  /\ nodes[3].x = JNum(6) /\ nodes[3].z = JNum(2)

-----------------------------------------------------------------------------
(* handleGenerate, MERGE *)

\* the response of the last step was applied to the graph as it was when the
\* response arrived: nothing was edited since the request was sent
FreshSnapshot ==
  pre.pending[lastOp.x] = [nodes |-> pre.nodes, connections |-> pre.connections]

MergeApplied == lastOp.op = "generate" /\ input.action = "MERGE"

DistinctIds(items) ==
  \A i, j \in 1..Len(items) : items[i].id = items[j].id => i = j

\* field by field: the value of n where n supplies one, else the value of e
Upserted(e, n) ==
  [id |-> n.id,
   type |-> n.type,
   label |-> n.label,
   x |-> n.x,
   z |-> n.z,
   y |-> IF Defined(n.y) THEN n.y ELSE e.y,
   color |-> IF Defined(n.color) THEN n.color ELSE e.color,
   provider |-> IF Defined(n.provider) THEN n.provider ELSE e.provider,
   kind |-> IF Defined(n.kind) THEN n.kind ELSE e.kind,
   parentId |-> IF Defined(n.parentId) THEN n.parentId ELSE e.parentId,
   collapsed |-> IF Defined(n.collapsed) THEN n.collapsed ELSE e.collapsed,
   textureUrl |-> IF Defined(n.textureUrl) THEN n.textureUrl ELSE e.textureUrl,
   dimensions |-> IF n.dimensions.t # "undefined" THEN n.dimensions ELSE e.dimensions,
   fontSize |-> IF Defined(n.fontSize) THEN n.fontSize ELSE e.fontSize,
   metadata |-> MetaUndef]

\* the keys of e.metadata overwritten by the keys of n.metadata
ShallowMerge(e, n) ==
  [k \in MetaKeys |-> IF n.metadata.m[k] # NoKey THEN n.metadata.m[k] ELSE e.metadata.m[k]]

\* C3.  MERGE node upsert: an existing node whose id is proposed ends up with
\* the proposed value of every field the proposal supplies and its own value
\* of every field the proposal omits (y, color, provider, kind, parentId,
\* collapsed, textureUrl, dimensions, fontSize), and with the key-by-key
\* merge of the two metadata; an existing node that is not proposed is
\* unchanged.  Stated for a response applied to the current graph, ids
\* distinct in the graph and in the response.
C3_MergeUpsert ==
  (MergeApplied /\ FreshSnapshot /\ DistinctIds(pre.nodes) /\ DistinctIds(input.nodes)) =>
    \A i \in 1..Len(pre.nodes) :
       LET e == pre.nodes[i]
           at == {j \in 1..Len(input.nodes) : input.nodes[j].id = e.id}
       IN  /\ i <= Len(nodes)
           /\ IF at = {}
              THEN nodes[i] = e
              ELSE LET n == input.nodes[CHOOSE j \in at : TRUE]
                   IN  /\ [nodes[i] EXCEPT !.metadata = MetaUndef] = Upserted(e, n)
                       /\ nodes[i].metadata.m = ShallowMerge(e, n)

PairOf(c) == <<c.fromId, c.toId>>

DistinctPairs(items) ==
  \A i, j \in 1..Len(items) : PairOf(items[i]) = PairOf(items[j]) => i = j

\* e with label, animated and category overwritten where c supplies them
ApplyExplicit(e, c) ==
  [e EXCEPT !.label = IF Defined(c.label) THEN c.label ELSE @,
            !.animated = IF Defined(c.animated) THEN c.animated ELSE @,
            !.category = IF Defined(c.category) THEN c.category ELSE @]

\* e after the proposals of proposed that have its ordered pair, in order
AfterProposals(e, proposed) ==
  LET same == SelectSeq(proposed, LAMBDA c : PairOf(c) = PairOf(e))
      F[k \in 0..Len(same)] == IF k = 0 THEN e ELSE ApplyExplicit(F[k - 1], same[k])
  IN  F[Len(same)]

\* C4.  MERGE connection upsert: an existing connection keeps its id and
\* place and takes label, animated and category from the proposals with its
\* ordered pair (fromId, toId) where they supply them, the later proposal over
\* the earlier; every ordered pair that is new appends exactly one connection,
\* animated defaulting to true.  Stated for a response applied to the current
\* graph in which no two connections have the same ordered pair.
C4_MergeConnections ==
  (MergeApplied /\ FreshSnapshot /\ DistinctPairs(pre.connections)) =>
    LET old == pre.connections
        proposed == input.connections
        firstNew == {j \in 1..Len(proposed) :
                       /\ \A i \in 1..Len(old) : PairOf(old[i]) # PairOf(proposed[j])
                       /\ \A k \in 1..(j - 1) : PairOf(proposed[k]) # PairOf(proposed[j])}
    IN  /\ Len(connections) = Len(old) + Cardinality(firstNew)
        /\ \A i \in 1..Len(old) :
             i <= Len(connections) /\ connections[i] = AfterProposals(old[i], proposed)
        /\ \A j \in firstNew :
             \E k \in (Len(old) + 1)..Len(connections) :
                /\ Truthy(connections[k].id)
                /\ [connections[k] EXCEPT !.id = JUndef] =
                     AfterProposals([id |-> JUndef,
                                     fromId |-> proposed[j].fromId,
                                     toId |-> proposed[j].toId,
                                     label |-> JUndef,
                                     animated |-> JTrue,
                                     category |-> JUndef], proposed)

\* C5.  MERGE idempotence: a MERGE response with no nodes and no connections,
\* applied to the current graph, leaves the node list and the connection list
\* as they are and empties the selection.
C5_EmptyMerge ==
  (lastOp.op = "generate" /\ input = RespMergeEmpty /\ FreshSnapshot) =>
    /\ nodes = pre.nodes
    /\ connections = pre.connections
    /\ selectedIds = {}

-----------------------------------------------------------------------------
(* handleGenerate, REPLACE and malformed responses *)

\* C6.  REPLACE: the node list and the connection list are the proposed lists,
\* item by item and in order, whatever the graph and the selection were; a node
\* has its proposed id or a minted one (unlike every proposed id and every other
\* minted id), its proposed color or the default of its type, its proposed y
\* or 0; a connection has its proposed id or a minted one and its proposed
\* animated or true; the selection is empty.
C6_Replace ==
  (lastOp.op = "generate" /\ input.action = "REPLACE") =>
    LET ns == input.nodes
        cs == input.connections
        given == {ns[i].id : i \in 1..Len(ns)} \cup {cs[i].id : i \in 1..Len(cs)}
        mintedN == {i \in 1..Len(ns) : ~Truthy(ns[i].id)}
        mintedC == {i \in 1..Len(cs) : ~Truthy(cs[i].id)}
    IN  /\ selectedIds = {}
        /\ Len(nodes) = Len(ns)
        /\ Len(connections) = Len(cs)
        /\ \A i \in 1..Len(ns) :
             /\ [nodes[i] EXCEPT !.id = JUndef] =
                  [ns[i] EXCEPT !.id = JUndef,
                                !.color = IF Truthy(ns[i].color) THEN ns[i].color
                                          ELSE getColorForType(ns[i].type),
                                !.y = IF ns[i].y \in {JUndef, JNull} THEN JNum(0)
                                      ELSE ns[i].y]
             /\ i \notin mintedN => nodes[i].id = ns[i].id
        /\ \A i \in 1..Len(cs) :
             /\ [connections[i] EXCEPT !.id = JUndef] =
                  [cs[i] EXCEPT !.id = JUndef,
                                !.animated = IF cs[i].animated = JUndef THEN JTrue
                                             ELSE cs[i].animated]
             /\ i \notin mintedC => connections[i].id = cs[i].id
        /\ LET fresh == {nodes[i].id : i \in mintedN} \cup {connections[i].id : i \in mintedC}
           IN  /\ \A id \in fresh : Truthy(id) /\ id \notin given
               /\ Cardinality(fresh) = Cardinality(mintedN) + Cardinality(mintedC)

\* a graph with nodes, connections and a selection was replaced by the three
\* nodes and two connections of RespReplace, two nodes and one connection of
\* which came without an id
C6_Witness ==
  /\ lastOp.op = "generate"
  /\ input = RespReplace
  /\ Len(pre.nodes) = 5 /\ Len(pre.connections) = 2 /\ pre.selectedIds # {}
  /\ Len(nodes) = 3 /\ Len(connections) = 2
  /\ nodes[3].y = JNum(0) /\ nodes[2].y = JNum(1)
  /\ nodes[1].color = JStr(NODE_COLORS("AGENT")) /\ nodes[2].color = JStr("#abc")
  /\ connections[1].animated = JTrue /\ connections[2].animated = JFalse
  /\ selectedIds = {}

ValidProposedNode(n) ==
  /\ n.type.t = "string" /\ n.type.s \in NodeType
  /\ n.label.t = "string" /\ n.label.s # ""

ValidProposedConnection(c) ==
  /\ c.fromId.t = "string" /\ c.fromId.s # ""
  /\ c.toId.t = "string" /\ c.toId.s # ""

Malformed(result) ==
  \/ \E i \in 1..Len(result.nodes) : ~ValidProposedNode(result.nodes[i])
  \/ \E i \in 1..Len(result.connections) : ~ValidProposedConnection(result.connections[i])

\* C7.  Fail closed: a response with a node whose type is outside NodeType, or
\* with an empty label, or with a connection without fromId or toId, is
\* rejected whole: nodes, connections and selection stay as they were.
\* Stated for a response applied to the current graph.
C7_FailClosed ==
  (lastOp.op = "generate" /\ Malformed(input) /\ FreshSnapshot) =>
    /\ nodes = pre.nodes
    /\ connections = pre.connections
    /\ selectedIds = pre.selectedIds

-----------------------------------------------------------------------------
(* Import and the file format *)

NonEmptyString(v) == v.t = "string" /\ v.s # ""

\* a node item with an id, a type of the enum and a label
ValidNodeItem(raw) ==
  /\ raw.t = "object"
  /\ NonEmptyString(raw.f.id)
  /\ raw.f.type.t = "string" /\ raw.f.type.s \in NodeType
  /\ NonEmptyString(raw.f.label)

ValidConnectionItem(raw) ==
  /\ raw.t = "object"
  /\ NonEmptyString(raw.f.fromId)
  /\ NonEmptyString(raw.f.toId)

\* one of the two top-level shapes: an object with array-valued nodes and
\* connections and schemaVersion 1 or no schemaVersion
SupportedShape(v) ==
  /\ v.t = "object"
  /\ v.nodes.isArray
  /\ v.connections.isArray
  /\ v.schemaVersion = JNum(1) \/ v.schemaVersion = JUndef

AllItemsValid(v) ==
  /\ \A i \in 1..Len(v.nodes.items) : ValidNodeItem(v.nodes.items[i])
  /\ \A i \in 1..Len(v.connections.items) : ValidConnectionItem(v.connections.items[i])

Decodable(text) ==
  text.syntaxOk /\ SupportedShape(text.value) /\ AllItemsValid(text.value)

\* C8.  Import is all-or-nothing: a text that is not JSON, or of an
\* unsupported shape, or with one invalid node or connection, leaves nodes,
\* connections and selection as they were; otherwise the graph is the
\* document's normalized nodes (color defaulted by type when empty) and
\* connections (animated defaulted to true), nothing else, and the selection
\* is empty.
C8_ImportAllOrNothing ==
  lastOp.op = "import" =>
    IF Decodable(input)
    THEN LET ns == input.value.nodes.items
             cs == input.value.connections.items
         IN  /\ selectedIds = {}
             /\ Len(nodes) = Len(ns)
             /\ Len(connections) = Len(cs)
             /\ \A i \in 1..Len(ns) :
                  LET n == normalizeNode(ns[i]).val[1]
                  IN  nodes[i] = [n EXCEPT !.color = IF n.color = JStr("")
                                                     THEN getColorForType(n.type) ELSE @]
             /\ \A i \in 1..Len(cs) :
                  LET c == normalizeConnection(cs[i]).val[1]
                  IN  connections[i] = [c EXCEPT !.animated = IF c.animated = JUndef
                                                              THEN JTrue ELSE @]
    ELSE /\ nodes = pre.nodes
         /\ connections = pre.connections
         /\ selectedIds = pre.selectedIds

\* a document whose second node has an unknown type was offered while three
\* nodes were selected: the first node was not imported either
C8_Witness ==
  /\ lastOp.op = "import"
  /\ input = DocBadNode
  /\ Cardinality(pre.selectedIds) = 3
  /\ Len(pre.connections) = 2
  /\ nodes = pre.nodes /\ connections = pre.connections
  /\ selectedIds = pre.selectedIds
  /\ JStr("p") \notin NodeIdsOf(nodes)

\* C9.  Decoding accepts exactly the two supported shapes: for these the
\* result, when every item is valid, is a document of schemaVersion 1 whose
\* nodes and connections are the normalized items, and otherwise the error of
\* the invalid item; every other shape fails with the unsupported-format
\* error; the file exported after an import has schemaVersion 1.
C9_DecodeShapes ==
  /\ (output.kind = "parsed" /\ input.syntaxOk) =>
       LET v == input.value
           r == output.r
       IN  IF SupportedShape(v)
           THEN IF AllItemsValid(v)
                THEN /\ r.ok
                     /\ r.val[1].schemaVersion = 1
                     /\ Len(r.val[1].nodes) = Len(v.nodes.items)
                     /\ Len(r.val[1].connections) = Len(v.connections.items)
                     /\ \A i \in 1..Len(v.nodes.items) :
                          r.val[1].nodes[i] = normalizeNode(v.nodes.items[i]).val[1]
                     /\ \A i \in 1..Len(v.connections.items) :
                          r.val[1].connections[i] =
                            normalizeConnection(v.connections.items[i]).val[1]
                ELSE ~r.ok /\ r.err # UnsupportedFormat
           ELSE ~r.ok /\ r.err = UnsupportedFormat
  /\ output.kind = "exported" =>
       /\ output.file.schemaVersion = 1
       /\ Len(output.file.nodes) = Len(input.value.nodes.items)

\* the legacy document {nodes: [{id "1", type AGENT, label X, x 0, z 0, color
\* #fff}], connections: []} was decoded and exported again
C9_Witness ==
  /\ output.kind = "exported"
  /\ input.value.schemaVersion = JUndef
  /\ input.value.nodes = ArrayOf(<<GoodNode>>)
  /\ input.value.connections = ArrayOf(<<>>)
  /\ output.file.schemaVersion = 1
  /\ Len(output.file.nodes) = 1
  /\ output.file.nodes[1].type = JStr("AGENT")

\* C10.  normalizeNode raises for every payload whose id is not a non-empty
\* string, whose type is not of the NodeType enum or whose label is not a
\* non-empty string, and for no other object: then x and z are the given
\* finite number or 0, color is the given string or #64748b, y is a finite
\* number or absent, and an optional field of the wrong shape is absent.
C10_NormalizeNode ==
  output.kind = "normalized" =>
    LET raw == input.raw
        f == raw.f
        r == output.r
        n == r.val[1]
    IN  IF ~ValidNodeItem(raw)
        THEN ~r.ok
        ELSE /\ r.ok
             /\ n.id = f.id /\ n.type = f.type /\ n.label = f.label
             /\ n.x = (IF f.x.t = "number" /\ f.x.s = "" THEN f.x ELSE JNum(0))
             /\ n.z = (IF f.z.t = "number" /\ f.z.s = "" THEN f.z ELSE JNum(0))
             /\ n.color = (IF f.color.t = "string" THEN f.color ELSE JStr("#64748b"))
             /\ n.y = JUndef \/ (n.y.t = "number" /\ n.y.s = "")
             /\ (f.y.t = "number" /\ f.y.s = "") => n.y = f.y
             /\ f.y.t \notin {"number", "string"} => n.y = JUndef
             /\ n.provider = (IF f.provider.t = "string" /\ f.provider.s \in NodeProvider
                              THEN f.provider ELSE JUndef)
             /\ n.kind = (IF f.kind.t = "string" THEN f.kind ELSE JUndef)
             /\ n.parentId = (IF f.parentId.t = "string" THEN f.parentId ELSE JUndef)
             /\ n.collapsed = (IF f.collapsed.t = "boolean" THEN f.collapsed ELSE JUndef)
             /\ n.textureUrl = (IF f.textureUrl.t = "string" THEN f.textureUrl ELSE JUndef)
             /\ n.fontSize = (IF f.fontSize.t = "number" THEN f.fontSize ELSE JUndef)
             /\ f.metadata.t # "object" => n.metadata = MetaUndef
             /\ f.metadata.t = "object" => n.metadata = f.metadata
             /\ f.dimensions.t # "object" => n.dimensions = DimUndef
             /\ f.dimensions.t = "object" =>
                  /\ n.dimensions.t = "object"
                  /\ n.dimensions.width.t = "number" /\ n.dimensions.width.s = ""
                  /\ n.dimensions.depth.t = "number" /\ n.dimensions.depth.s = ""

\* a payload with id, type and label, x = Infinity, a numeric color and
\* optional fields of the wrong shape was normalized without an error
C10_Witness ==
  /\ output.kind = "normalized"
  /\ output.r.ok
  /\ input.raw.f.x = JInf
  /\ input.raw.f.color = JNum(1)
  /\ input.raw.f.provider = JStr("Nope")
  /\ input.raw.f.y = JStr("abc")
  /\ output.r.val[1].x = JNum(0)
  /\ output.r.val[1].color = JStr("#64748b")
  /\ output.r.val[1].provider = JUndef
  /\ output.r.val[1].y = JUndef

-----------------------------------------------------------------------------
(* Round trip and node identity *)

\* C11.  Round trip: the nodes and connections decoded from the exported
\* document of a graph of normalized entities are those of the graph, field
\* for field and in order.
C11_RoundTrip ==
  output.kind = "decoded" =>
    /\ output.r.ok
    /\ output.r.val[1].nodes = nodes
    /\ output.r.val[1].connections = connections

\* C12.  Node identity: no two nodes of the node list have the same id.
C12_UniqueNodeIds == DistinctIds(nodes)

-----------------------------------------------------------------------------
(* Grouping *)

\* a group surface was appended by the last step
Grouped ==
  /\ lastOp.op = "group"
  /\ Cardinality(pre.selectedIds) >= 2
  /\ Len(nodes) = Len(pre.nodes) + 1

\* the doubled bounding rectangle of the footprints of the nodes selected
\* before the step (half-extent 1 without dimensions), padded by GRID_SIZE
PaddedBounds2 ==
  LET S == {i \in 1..Len(pre.nodes) : pre.nodes[i].id \in pre.selectedIds}
      hw2(n) == IF n.dimensions.t = "object" THEN n.dimensions.width.n ELSE 2
      hd2(n) == IF n.dimensions.t = "object" THEN n.dimensions.depth.n ELSE 2
  IN  [xlo |-> MinOf({2 * pre.nodes[i].x.n - hw2(pre.nodes[i]) : i \in S}) - 2 * GRID_SIZE,
       xhi |-> MaxOf({2 * pre.nodes[i].x.n + hw2(pre.nodes[i]) : i \in S}) + 2 * GRID_SIZE,
       zlo |-> MinOf({2 * pre.nodes[i].z.n - hd2(pre.nodes[i]) : i \in S}) - 2 * GRID_SIZE,
       zhi |-> MaxOf({2 * pre.nodes[i].z.n + hd2(pre.nodes[i]) : i \in S}) + 2 * GRID_SIZE]

\* the doubled footprint of the surface s
Footprint2(s) ==
  [xlo |-> 2 * s.x.n - s.dimensions.width.n,
   xhi |-> 2 * s.x.n + s.dimensions.width.n,
   zlo |-> 2 * s.z.n - s.dimensions.depth.n,
   zhi |-> 2 * s.z.n + s.dimensions.depth.n]

GridAligned(s) == s.x.n % GRID_SIZE = 0 /\ s.z.n % GRID_SIZE = 0

\* C13 as stated.  Group footprint: the new SURFACE has a grid-aligned center
\* and its footprint is exactly the padded bounds of the grouped nodes.
C13_FootprintExact ==
  Grouped =>
    LET g == nodes[Len(nodes)]
    IN  /\ g.type = JStr("SURFACE")
        /\ GridAligned(g)
        /\ Footprint2(g) = PaddedBounds2

\* C13, amended.  Group footprint: the new SURFACE has a grid-aligned center;
\* its footprint contains the padded bounds and meets them on at least one
\* side in x and in z (it is the smallest footprint around that center that
\* contains them); it is the padded bounds when their midpoint is on the grid.
C13_FootprintCovers ==
  Grouped =>
    LET g == nodes[Len(nodes)]
        f == Footprint2(g)
        b == PaddedBounds2
    IN  /\ g.type = JStr("SURFACE")
        /\ GridAligned(g)
        /\ f.xlo <= b.xlo /\ b.xhi <= f.xhi
        /\ f.zlo <= b.zlo /\ b.zhi <= f.zhi
        /\ f.xlo = b.xlo \/ f.xhi = b.xhi
        /\ f.zlo = b.zlo \/ f.zhi = b.zhi
        /\ ((b.xlo + b.xhi) % (4 * GRID_SIZE) = 0 /\ (b.zlo + b.zhi) % (4 * GRID_SIZE) = 0)
             => f = b

\* a (0,0) and b (2,0), both without dimensions, were grouped: the padded
\* bounds are [-3, 5] in x with midpoint 1, the center went to 2 and the
\* footprint is [-3, 7]
C13_Witness ==
  /\ Grouped
  /\ pre.selectedIds = {JStr("a"), JStr("b")}
  /\ PaddedBounds2.xlo = -6 /\ PaddedBounds2.xhi = 10
  /\ nodes[Len(nodes)].x = JNum(2)
  /\ Footprint2(nodes[Len(nodes)]).xlo = -6
  /\ Footprint2(nodes[Len(nodes)]).xhi = 14

\* C14.  Group frame: with fewer than two selected ids nothing changes; with
\* two or more the node list gains one SURFACE at its end, every node that
\* was there and every connection is as before, and the selection is the id
\* of the new node, which no other node has.
C14_GroupFrame ==
  lastOp.op = "group" =>
    IF Cardinality(pre.selectedIds) < 2
    THEN /\ nodes = pre.nodes
         /\ connections = pre.connections
         /\ selectedIds = pre.selectedIds
    ELSE /\ Len(nodes) = Len(pre.nodes) + 1
         /\ SubSeq(nodes, 1, Len(pre.nodes)) = pre.nodes
         /\ connections = pre.connections
         /\ nodes[Len(nodes)].type = JStr("SURFACE")
         /\ nodes[Len(nodes)].id \notin NodeIdsOf(pre.nodes)
         /\ selectedIds = {nodes[Len(nodes)].id}

\* three of five nodes, one of them with a parentId, were grouped in a graph
\* with two connections
C14_Witness ==
  /\ lastOp.op = "group"
  /\ Cardinality(pre.selectedIds) = 3
  /\ Len(pre.nodes) = 5 /\ Len(nodes) = 6
  /\ Len(connections) = 2
  /\ \E i \in 1..5 : nodes[i].id \in pre.selectedIds /\ nodes[i].parentId # JUndef
  /\ selectedIds = {nodes[6].id}

\* C15.  Group then move: when the step after a grouping of two or more
\* selected nodes moves the new SURFACE by a nonzero (dx, dz), every node
\* that was grouped is translated by (dx, dz).
C15_GroupThenMove ==
  [][ (/\ Grouped
       /\ lastOp'.op = "move"
       /\ lastOp'.id = nodes[Len(nodes)].id
       /\ <<lastOp'.x, lastOp'.z>> # <<nodes[Len(nodes)].x.n, nodes[Len(nodes)].z.n>>)
      => LET dx == lastOp'.x - nodes[Len(nodes)].x.n
             dz == lastOp'.z - nodes[Len(nodes)].z.n
         IN  /\ Len(nodes') = Len(nodes)
             /\ \A i \in 1..Len(pre.nodes) :
                  pre.nodes[i].id \in pre.selectedIds =>
                    /\ nodes'[i].x = JNum(pre.nodes[i].x.n + dx)
                    /\ nodes'[i].z = JNum(pre.nodes[i].z.n + dz) ]_vars

\* a (0,0) and b (2,0), both without dimensions, were grouped under a
\* surface whose center was snapped from 1 to 2, and the surface was then
\* dragged to (0,0): a and b are at (-2,0) and (0,0), and c, which was not
\* grouped but stands on the surface, is carried along
C15_Witness ==
  /\ lastOp.op = "move"
  /\ Len(pre.nodes) >= 5
  /\ pre.nodes[Len(pre.nodes)].label = JStr("Group Zone")
  /\ pre.nodes[Len(pre.nodes)].x = JNum(2)
  /\ lastOp.id = pre.nodes[Len(pre.nodes)].id
  /\ pre.selectedIds = {lastOp.id}
  /\ lastOp.x = 0 /\ lastOp.z = 0
  /\ pre.nodes[1].dimensions = DimUndef /\ pre.nodes[2].dimensions = DimUndef
  /\ pre.nodes[1].x = JNum(0) /\ nodes[1].x = JNum(-2)
  /\ pre.nodes[2].x = JNum(2) /\ nodes[2].x = JNum(0)
  /\ pre.nodes[3].x = JNum(4) /\ nodes[3].x = JNum(2)

\* C16.  Group drag: when a block that is one of two or more selected nodes
\* is pressed, with or without shift, and the next step is a move event of
\* that drag with a nonzero delta, every node that was selected at the press
\* is translated by the delta.
C16_GroupDrag ==
  [][ (/\ lastOp.op = "pointerDown"
       /\ Cardinality(pre.selectedIds) >= 2
       /\ lastOp.id \in pre.selectedIds
       /\ lastOp'.op = "move"
       /\ FindIndex(nodes, lastOp'.id) # 0
       /\ <<lastOp'.x, lastOp'.z>> # <<nodes[FindIndex(nodes, lastOp'.id)].x.n,
                                       nodes[FindIndex(nodes, lastOp'.id)].z.n>>)
      => LET k == FindIndex(nodes, lastOp'.id)
             dx == lastOp'.x - nodes[k].x.n
             dz == lastOp'.z - nodes[k].z.n
         IN  /\ Len(nodes') = Len(nodes)
             /\ \A i \in 1..Len(nodes) :
                  nodes[i].id \in pre.selectedIds =>
                    /\ nodes'[i].x = JNum(nodes[i].x.n + dx)
                    /\ nodes'[i].z = JNum(nodes[i].z.n + dz) ]_vars

\* the nodes reached from ns[i] by following parentId once
ParentsOf(ns, i) ==
  IF ns[i].parentId.t = "string"
  THEN {j \in 1..Len(ns) : ns[j].id = ns[i].parentId}
  ELSE {}

RECURSIVE AncestorsFrom(_, _)
AncestorsFrom(ns, S) ==
  LET next == S \cup UNION {ParentsOf(ns, j) : j \in S}
  IN  IF next = S THEN S ELSE AncestorsFrom(ns, next)

\* the nodes reached from ns[i] by following parentId one or more times
Ancestors(ns, i) == AncestorsFrom(ns, ParentsOf(ns, i))

\* C17.  Ancestor visibility: a node is left out of the rendered nodes if and
\* only if a node reached from it by following parentId one or more times
\* has collapsed = true (so its own flag alone does not hide it, and a
\* parentId that names no node ends the walk).
C17_AncestorVisibility ==
  \A i \in 1..Len(nodes) :
    isHidden(nodes, nodes[i].id) <=>
      \E j \in Ancestors(nodes, i) : nodes[j].collapsed = JTrue

\* a and b are each other's parent and no node is collapsed
TwoNodeCycle(ns) ==
  /\ \E i, j \in 1..Len(ns) :
       /\ ns[i].id # ns[j].id
       /\ ns[i].parentId = ns[j].id
       /\ ns[j].parentId = ns[i].id
       /\ loop.nodeId \in {ns[i].id, ns[j].id}
  /\ \A i \in 1..Len(ns) : ~Truthy(ns[i].collapsed)

\* C18.  Cycle safety: on every graph of the family, parentId cycles and
\* self-parents included, the walk of isHidden, the closure of cascadeDelete
\* and the closure of handleMoveNode each reach their end; on the two-node
\* cycle without a collapsed flag the walk ends with "not hidden".
C18_CycleSafety ==
  /\ <>(loop.w.done)
  /\ [](loop.kind = "isHidden" /\ loop.w.done /\ TwoNodeCycle(nodes)
          => ~loop.w.result)

\* the walk from a went a -> b -> a around the cycle and ended at the guard
C18_Witness ==
  /\ loop.kind = "isHidden"
  /\ loop.nodeId = JStr("a")
  /\ TwoNodeCycle(nodes)
  /\ loop.w.done
  /\ loop.w.visited = {JStr("a"), JStr("b")}
  /\ ~loop.w.result

UserEdits ==
  {"addNode", "move", "updateNode", "delete", "addConnection", "removeConnection",
   "updateConnection"}

ProposedIds(result) == {result.nodes[k].id : k \in 1..Len(result.nodes)}

\* C19.  No lost update on a late response: when a MERGE response is applied
\* for a request that was sent from the graph as it was before the user's
\* last edit, a node added by that edit is still present, a node moved by it
\* keeps its new position unless the response proposes it, and a node
\* deleted by it does not reappear unless the response proposes it.
C19_NoLostUpdate ==
  [][ (/\ lastOp'.op = "generate"
       /\ input'.action = "MERGE"
       /\ lastOp.op \in UserEdits
       /\ lastOp'.x \in 1..Len(pending)
       /\ pending[lastOp'.x] = [nodes |-> pre.nodes, connections |-> pre.connections])
      => /\ \A i \in 1..Len(nodes) :
              nodes[i].id \notin NodeIdsOf(pre.nodes) => nodes[i].id \in NodeIdsOf(nodes')
         /\ lastOp.op = "move" =>
              \A i \in 1..Len(nodes) :
                (nodes[i] # pre.nodes[i] /\ nodes[i].id \notin ProposedIds(input'))
                  => \E j \in 1..Len(nodes') :
                       /\ nodes'[j].id = nodes[i].id
                       /\ nodes'[j].x = nodes[i].x /\ nodes'[j].z = nodes[i].z
         /\ \A id \in NodeIdsOf(pre.nodes) \ NodeIdsOf(nodes) :
              id \notin ProposedIds(input') => id \notin NodeIdsOf(nodes') ]_vars

\* C20.  Superseded request: a response to a request that is not the latest
\* one sent (a later request is still in flight, or the step before was the
\* response to a later request) changes neither the nodes, nor the
\* connections, nor the selection.
C20_SupersededDiscarded ==
  [][ (/\ lastOp'.op = "generate"
       /\ \/ lastOp'.x < Len(pending)
          \/ lastOp.op = "generate" /\ lastOp'.x < lastOp.x)
      => /\ nodes' = nodes
         /\ connections' = connections
         /\ selectedIds' = selectedIds ]_vars

\* C21.  External service failure: when a generation request fails, for
\* whichever reason, nodes, connections and selection are as before, the
\* failed request is no longer in flight and no other request was sent.
C21_ServiceFailure ==
  lastOp.op = "generateFail" =>
    /\ nodes = pre.nodes
    /\ connections = pre.connections
    /\ selectedIds = pre.selectedIds
    /\ pending = RemoveAt(pre.pending, lastOp.x)

\* the later of two requests failed for want of an API key while a block was
\* selected
C21_Witness ==
  /\ lastOp.op = "generateFail"
  /\ input.message = "API Key not found"
  /\ Len(pre.pending) = 2 /\ lastOp.x = 2
  /\ selectedIds = {JStr("a")}
  /\ Len(connections) = 2

ConnIdsOf(cs) == {cs[i].id : i \in 1..Len(cs)}

\* C22.  Add template: a known template appends nodes and connections whose
\* ids are distinct from one another and from every node and connection id
\* that was in the graph; each fromId, toId and parentId of the bundle names
\* a node of the bundle; what was in the graph is unchanged; an unknown
\* template id changes nothing.
C22_AddTemplate ==
  lastOp.op = "addTemplate" =>
    IF input.templateId \notin TemplateIds
    THEN /\ nodes = pre.nodes
         /\ connections = pre.connections
         /\ selectedIds = pre.selectedIds
    ELSE LET n0 == Len(pre.nodes)
             c0 == Len(pre.connections)
             newNodes == SubSeq(nodes, n0 + 1, Len(nodes))
             newConnections == SubSeq(connections, c0 + 1, Len(connections))
             newIds == NodeIdsOf(newNodes) \cup ConnIdsOf(newConnections)
         IN  /\ Len(nodes) > n0
             /\ SubSeq(nodes, 1, n0) = pre.nodes
             /\ SubSeq(connections, 1, c0) = pre.connections
             /\ Cardinality(newIds) = Len(newNodes) + Len(newConnections)
             /\ newIds \cap (NodeIdsOf(pre.nodes) \cup ConnIdsOf(pre.connections)) = {}
             /\ \A i \in 1..Len(newConnections) :
                  /\ newConnections[i].fromId \in NodeIdsOf(newNodes)
                  /\ newConnections[i].toId \in NodeIdsOf(newNodes)
             /\ \A i \in 1..Len(newNodes) :
                  newNodes[i].parentId # JUndef =>
                    newNodes[i].parentId \in NodeIdsOf(newNodes)

\* foundry_stack was instantiated in a graph that already held a Foundry Zone
\* with its four resources and three connections
C22_Witness ==
  /\ lastOp.op = "addTemplate"
  /\ input.templateId = "foundry_stack"
  /\ \E i \in 1..Len(pre.nodes) : pre.nodes[i].label = JStr("Foundry Zone")
  /\ Len(nodes) = Len(pre.nodes) + 5
  /\ Len(pre.connections) >= 3
  /\ Len(connections) = Len(pre.connections) + 3

\* C23.  Add connection: the connection list gains one connection at its
\* end, whose fromId and toId differ and are ids of nodes of the graph, with
\* an id no connection had, animated = true and category = dataFlow; the
\* connections that were there and the nodes are unchanged.
C23_AddConnection ==
  lastOp.op = "addConnection" =>
    /\ Len(connections) = Len(pre.connections) + 1
    /\ SubSeq(connections, 1, Len(pre.connections)) = pre.connections
    /\ nodes = pre.nodes
    /\ LET c == connections[Len(connections)]
       IN  /\ c.fromId # c.toId
           /\ c.fromId \in NodeIdsOf(nodes)
           /\ c.toId \in NodeIdsOf(nodes)
           /\ c.id \notin ConnIdsOf(pre.connections) \cup NodeIdsOf(nodes)
           /\ c.animated = JTrue
           /\ c.category = JStr("dataFlow")

\* with a selected, a connection a -> c was added to the two that were there
C23_Witness ==
  /\ lastOp.op = "addConnection"
  /\ Len(pre.connections) = 2
  /\ connections[3].fromId = JStr("a")
  /\ connections[3].toId = JStr("c")
  /\ selectedIds = {JStr("a")}

\* the nodes of ns that Scene mounts a block for
Shown(ns) == Range(visibleNodes(ns))

\* C24.  Filter on read: every connection that is rendered has a fromId and
\* a toId that are ids of nodes of the list that are themselves rendered; the
\* rendered connections are taken from the stored ones, in their order, and
\* a connection with an endpoint that names no node, or only nodes that are
\* not rendered, is stored and not rendered.
C24_FilterOnRead ==
  LET rendered == renderedConnections(nodes, connections)
      ok(id) == \E n \in Range(nodes) : n.id = id /\ n \in Shown(nodes)
  IN  /\ \A c \in Range(rendered) : ok(c.fromId) /\ ok(c.toId)
      /\ rendered = SelectSeqIdx(connections, LAMBDA c : c \in Range(rendered))
      /\ \A c \in Range(connections) :
           ~(ok(c.fromId) /\ ok(c.toId)) => c \notin Range(rendered)

\* b is hidden under the collapsed a: of a -> b, c -> d and d -> zz only
\* c -> d is rendered
C24_Witness ==
  /\ Len(connections) = 3
  /\ isHidden(nodes, JStr("b"))
  /\ ~isHidden(nodes, JStr("a"))
  /\ connections[3].toId = JStr("zz")
  /\ Len(renderedConnections(nodes, connections)) = 1
  /\ renderedConnections(nodes, connections)[1] = connections[2]

\* what a select event must leave as the selection
SelectionAfter(sel, id, multi) ==
  CASE id # JNull /\ ~multi -> {id}
    [] id # JNull /\ multi -> IF id \in sel THEN sel \ {id} ELSE sel \cup {id}
    [] id = JNull /\ ~multi -> {}
    [] OTHER -> sel

\* C25.  Selection events: select (id, no modifier) makes the selection
\* {id}; select (id, modifier) toggles id and keeps the other ids; select
\* (none, no modifier) empties the selection; select (none, modifier) leaves
\* it; nodes and connections are never changed; a second select (id,
\* modifier) right after the first restores the selection.
C25_SelectionEvents ==
  /\ [](lastOp.op = "select" =>
          /\ selectedIds = SelectionAfter(pre.selectedIds, lastOp.id, lastOp.multi)
          /\ nodes = pre.nodes
          /\ connections = pre.connections)
  /\ [][ (/\ lastOp.op = "select" /\ lastOp.multi /\ lastOp.id # JNull
          /\ lastOp'.op = "select" /\ lastOp'.multi /\ lastOp'.id = lastOp.id)
         => selectedIds' = pre.selectedIds ]_vars

\* with two nodes selected, a shift-click on one of them left the other
C25_Witness ==
  /\ lastOp.op = "select" /\ lastOp.multi
  /\ Cardinality(pre.selectedIds) = 2
  /\ lastOp.id \in pre.selectedIds
  /\ Cardinality(selectedIds) = 1
  /\ selectedIds \subseteq pre.selectedIds

\* C26.  MERGE edge identity: after a MERGE response applied to the current
\* graph, every ordered pair (fromId, toId) that was in the graph or is
\* proposed is the pair of a connection of the result, and a connection whose
\* ordered pair no proposal has is in the result as it was (as one of the
\* connections that had that pair).
C26_EdgeIdentity ==
  (MergeApplied /\ FreshSnapshot) =>
    LET old == pre.connections
        proposed == input.connections
        pairs == {PairOf(connections[k]) : k \in 1..Len(connections)}
    IN  /\ \A j \in 1..Len(proposed) : PairOf(proposed[j]) \in pairs
        /\ \A i \in 1..Len(old) : PairOf(old[i]) \in pairs
        /\ \A i \in 1..Len(old) :
             (\A j \in 1..Len(proposed) : PairOf(proposed[j]) # PairOf(old[i]))
               => \E k \in 1..Len(connections), m \in 1..Len(old) :
                     /\ PairOf(old[m]) = PairOf(old[i])
                     /\ connections[k] = old[m]

\* C27.  Selection validity: in every state reached by select events, add
\* node, add template, group, move, update, delete, import and applied
\* responses, every selected id is the id of a node of the node list.
C27_SelectionValid == selectedIds \subseteq NodeIdsOf(nodes)

\* a delete that started from a selection of two nodes removed nodes and
\* left the selection empty
C27_Witness ==
  /\ lastOp.op = "delete"
  /\ Cardinality(pre.selectedIds) = 2
  /\ lastOp.id \in pre.selectedIds
  /\ Len(nodes) < Len(pre.nodes)
  /\ selectedIds = {}

\* every connection's fromId and toId are ids of nodes of the node list
Integrity(ns, cs) ==
  \A i \in 1..Len(cs) : cs[i].fromId \in NodeIdsOf(ns) /\ cs[i].toId \in NodeIdsOf(ns)

GraphEdits ==
  {"addNode", "addTemplate", "group", "move", "updateNode", "delete",
   "addConnection", "removeConnection", "updateConnection"}

\* C28.  User edits preserve referential integrity: a step of add node, add
\* template, group, move, update node, delete, or add, remove or update
\* connection taken from a graph whose connections all name existing nodes
\* ends in such a graph; a step that ends in a graph with a dangling
\* connection from a graph without one is an import or a generation response.
C28_UserEditsKeepIntegrity ==
  [][ /\ (Integrity(nodes, connections) /\ lastOp'.op \in GraphEdits)
           => Integrity(nodes', connections')
      /\ (Integrity(nodes, connections) /\ ~Integrity(nodes', connections'))
           => lastOp'.op \in {"import", "generate"} ]_vars

\* a delete took a node out of a graph without dangling connections, and
\* its connections with it
C28_Witness ==
  /\ lastOp.op = "delete"
  /\ Integrity(pre.nodes, pre.connections)
  /\ Len(connections) < Len(pre.connections)
  /\ Len(nodes) > 0
  /\ Len(connections) > 0
  /\ Integrity(nodes, connections)

\* C29.  The drag flag is always released: after every pointer-down on a
\* node the dragging flag is set and the drag plane of some selected block is
\* mounted, so that the pointer-up that follows has its handler (the only
\* place that resets the flag) and the flag does not stay set after the
\* release.
C29_DragReleased == lastOp.op = "pointerDown" => (isDragging /\ DragPlaneIds # {})

\* the ids of the nodes an event translated
Translated(before, after) ==
  {before[i].id : i \in {j \in 1..Len(before) : after[j] # before[j]}}

\* two successive move events of one drag of a Surface: the same dragged
\* node and the same selection, nothing in between
SuccessiveDragMoves ==
  /\ lastOp.op = "move" /\ lastOp'.op = "move"
  /\ lastOp'.id = lastOp.id
  /\ isDragging /\ isDragging'
  /\ selectedIds = pre.selectedIds /\ selectedIds' = selectedIds
  /\ \E k \in 1..Len(nodes) :
        /\ nodes[k].id = lastOp.id
        /\ nodes[k].type = JStr("SURFACE")
        /\ nodes[k].dimensions.t = "object"

\* C30.  Stable moving set within one drag: of two successive move events
\* of one drag of a Surface, the later one translates no node that was
\* outside the moving closure of the earlier one, and when both translate
\* something they translate the same set of nodes.
C30_StableMovingSet ==
  [][ SuccessiveDragMoves =>
        LET first == MoveClosure(MoveSeed(pre.selectedIds, lastOp.id), pre.nodes)
            earlier == Translated(pre.nodes, nodes)
            later == Translated(nodes, nodes')
        IN  /\ later \subseteq first
            /\ (earlier # {} /\ later # {}) => later = earlier ]_vars

====
